---- MODULE Spec2Model ----
(***************************************************************************)
(* A model of the tool-augmented conversational session engine:            *)
(*   - DuplexSession: backend/app/llm/realtime_handler.py (RealtimeHandler)*)
(*     driven by backend/app/api/realtime.py (websocket_endpoint);         *)
(*   - AgentLoop: backend/app/llm/graph.py (run_graph and the graph);      *)
(*                                                                         *)
(* DuplexSession runs on one asyncio event loop: the coroutine of          *)
(* handle_connection (the inbound relay) and the task of                   *)
(* _forward_realtime_events (the outbound relay) interleave only at their  *)
(* await points, so every action below is one run of a coroutine from one  *)
(* suspension to the next. session.recv runs in a worker thread            *)
(* (asyncio.to_thread); session.send and tool_func.invoke are synchronous  *)
(* calls made on the event loop.                                           *)
(***************************************************************************)
EXTENDS Integers, Sequences, FiniteSets, TLC

\* ------------------------------------------------------------------ bounds
MaxFrames == 2      \* frames the client puts on the websocket
MaxEvents == 2      \* results session.recv hands back over a session
MaxRounds == 2      \* model invocations of one AgentLoop turn explored
MaxCalls  == 2      \* tool calls carried by one model response

\* ------------------------------------------------------- DuplexSession state
VARIABLES
    mainPc,       \* position of websocket_endpoint / handle_connection
    fwdPc,        \* position of the _forward_realtime_events task
    stopFlag,     \* self._stop_flag
    cancelReq,    \* forward_task.cancel() was called, CancelledError not yet thrown
    session,      \* self.session: "none" or "set"
    connState,    \* the model connection: "none", "open", "broken", "closed"
    opens,        \* connections opened by this handler
    closes,       \* close calls made on the connection
    recvActive,   \* worker threads currently inside session.recv
    recvLockHeld, \* self._recv_lock is held
    recvResult,   \* what the worker thread handed to the awaiting task
    curEvent,     \* event_dict the relay is working on
    received,     \* the events session.recv handed to the relay, in order
    wsSent,       \* websocket.send_json calls, in order, with their outcome
    modelSent,    \* events session.send put on the model connection, in order
    clientIn,     \* frames the client sent and websocket.receive has not returned
    nFrames,      \* frames the client has sent
    nEvents,      \* results handed back by session.recv
    credLog,      \* calendar accesses made: who called, whose credentials
    toolRes,      \* result of the dispatch of the current interception
    relayExit     \* why the relay's loop ended

\* ----------------------------------------------------------- AgentLoop state
VARIABLES
    agentPc,      \* position of run_graph / the graph
    messages,     \* State["messages"]
    rounds,       \* model invocations made in this turn
    steps,        \* nodes of the graph run by this graph.invoke
    history,      \* the persisted conversations, one document per user
    dispatched,   \* tool invocations made by process_tool_calls, in order
    saved,        \* save_conversation_message calls of this invocation, in order
    failed,       \* text of the exception run_graph caught ("none": none)
    retval,       \* value returned by run_graph: a fixed text and what follows it
    stopAfter     \* how the chat model answers over the turn

\* ------------------------------------------------- parse_timezone_offset state
VARIABLES
    offsetStr,    \* the argument of the call
    parsed        \* what the call ended with

\* ------------------------------------------------------ calendar tools state
VARIABLES
    toolCall,     \* the operation invoked and its arguments
    calRequests,  \* the requests the operation made to the calendar API, in order
    toolOut,      \* what the operation returned
    toolWarn      \* the warnings the operation printed

\* ------------------------------------------------- conversation store state
VARIABLES
    docs,         \* the conversations collection: one document per user, or none
    savePc,       \* position of each save_conversation_message call
    saveUser,     \* the user_id of each call
    saveSaw,      \* what conversation_ref.get().exists answered to each call
    readResult    \* what the last get_conversation_history returned

dvars == <<mainPc, fwdPc, stopFlag, cancelReq, session, connState, opens, closes,
           recvActive, recvLockHeld, recvResult, curEvent, received, wsSent,
           modelSent, clientIn, nFrames, nEvents, credLog, toolRes, relayExit>>
avars == <<agentPc, messages, rounds, steps, history, dispatched, saved, failed,
           retval, stopAfter>>
pvars == <<offsetStr, parsed>>
tvars == <<toolCall, calRequests, toolOut, toolWarn>>
svars == <<docs, savePc, saveUser, saveSaw, readResult>>
vars  == <<dvars, avars, pvars, tvars, svars>>

\* ------------------------------------------------------------ shared values
Caller   == "alice"      \* the authenticated user of the request or connection
Other    == "mallory"    \* another user of the system
StoredTz == "+05:30"     \* the offset stored for the request or connection
ModelTz  == "-08:00"     \* an offset the model wrote into the arguments
Absent   == "absent"     \* an argument the model did not supply

\* tool_map: the names that resolve to an operation
ToolMapNames == {"get_current_time", "check_availability", "find_available_slots",
                 "create_event", "get_upcoming_events"}
\* the tools the dispatchers hand the timezone offset to
TzTools == {"create_event", "get_upcoming_events", "check_availability"}
\* the tools that start with get_user_google_tokens(user_id)
CalendarTools == {"check_availability", "find_available_slots", "create_event",
                  "get_upcoming_events"}

Terminated == {"done", "cancelled"}
NoExit == [why |-> "none", at |-> "none"]

NoCall  == [name |-> "-", argsOk |-> TRUE, valid |-> TRUE, uid |-> Absent, tz |-> Absent]
NoEvent == [type |-> "none", seq |-> 0, call |-> NoCall]
NoObj   == [form |-> "none", body |-> NoEvent]
NoResult == [kind |-> "none", obj |-> NoObj]

\* The tool calls the speech model is let to make: a calendar tool with another
\* user's id and an offset in the arguments, a tool whose arguments lack a
\* required field (invoke raises a validation error), a name that is no tool,
\* and arguments that are no JSON.
DuplexCalls ==
    { [name |-> "create_event", argsOk |-> TRUE, valid |-> TRUE,
       uid |-> Other, tz |-> ModelTz],
      [name |-> "check_availability", argsOk |-> TRUE, valid |-> FALSE,
       uid |-> Absent, tz |-> Absent],
      [name |-> "delete_event", argsOk |-> TRUE, valid |-> TRUE,
       uid |-> Absent, tz |-> Absent],
      [name |-> "find_available_slots", argsOk |-> FALSE, valid |-> TRUE,
       uid |-> Absent, tz |-> Absent] }

ToolCallDone == "response.function_call_arguments.done"

\* the events session.recv can hand back as the n-th result
ModelEvents(n) ==
    { [type |-> t, seq |-> n, call |-> NoCall] : t \in {"response.audio.delta", "error"} }
    \cup { [type |-> ToolCallDone, seq |-> n, call |-> c] : c \in DuplexCalls }

\* _event_to_dict: a pydantic event is dumped, a dict is passed through, anything
\* else is replaced by its type name and its text
EventToDict(obj) ==
    IF obj.form \in {"model", "dict"}
    THEN obj.body
    ELSE [type |-> "str", seq |-> obj.body.seq, call |-> NoCall]

\* base64.b64encode(audio_data).decode('utf-8')
B64Encode(payload) == <<"b64", payload>>

\* session.send raises unless the connection is open
SendOk == connState = "open"

\* what session.send leaves on the model connection
ModelSend(log, ev) == IF SendOk THEN Append(log, ev) ELSE log

ConfigEvent      == [type |-> "session.update", ref |-> 0, data |-> <<"cfg", 0>>]
AppendAudio(n)   == [type |-> "input_audio_buffer.append", ref |-> n, data |-> B64Encode(n)]
ItemCreate(e, r) == [type |-> "conversation.item.create", ref |-> e.seq, data |-> <<r, e.seq>>]
ResponseCreate(e) == [type |-> "response.create", ref |-> e.seq, data |-> <<"rsp", e.seq>>]

\* the event loop runs one coroutine at a time; tool_func.invoke is a synchronous
\* call made by the relay's coroutine, so nothing else runs until it returns
EventLoopFree == fwdPc # "in_tool"

\* the client has sent its disconnect frame
ClientGone == \E i \in 1..Len(clientIn) : clientIn[i][1] = "disconnect"

\* outcomes of websocket.send_json: it raises once the client is gone
WsOutcomes == IF ClientGone THEN {"closed", "other"} ELSE {"ok"}

\* ------------------------------------------------------- DuplexSession: Init
\* RealtimeHandler.__init__ has run; websocket_endpoint is about to await
\* handler.handle_connection()
DuplexInit ==
    /\ mainPc = "start"
    /\ fwdPc = "none"
    /\ stopFlag = FALSE
    /\ cancelReq = FALSE
    /\ session = "none"
    /\ connState = "none"
    /\ opens = 0
    /\ closes = 0
    /\ recvActive = 0
    /\ recvLockHeld = FALSE
    /\ recvResult = NoResult
    /\ curEvent = NoEvent
    /\ received = <<>>
    /\ wsSent = <<>>
    /\ modelSent = <<>>
    /\ clientIn = <<>>
    /\ nFrames = 0
    /\ nEvents = 0
    /\ credLog = {}
    /\ toolRes = "none"
    /\ relayExit = NoExit

\* ------------------------------------------ DuplexSession: handle_connection
\* the connection confirmation sent to the client before anything else, inside
\* try/except: a failure is logged
SendConfirmation ==
    /\ mainPc = "start"
    /\ \E o \in WsOutcomes :
         wsSent' = Append(wsSent, [kind |-> "connection.update", body |-> NoEvent,
                                   ok |-> (o = "ok")])
    /\ mainPc' = "connect"
    /\ UNCHANGED <<fwdPc, stopFlag, cancelReq, session, connState, opens, closes,
                   recvActive, recvLockHeld, recvResult, curEvent, received,
                   modelSent, clientIn, nFrames, nEvents, credLog, toolRes, relayExit>>
    /\ UNCHANGED <<avars, pvars, tvars, svars>>

\* client.beta.realtime.connect(...) entered as a context manager: the connection
\* opens, or entering raises and the outer except of handle_connection logs it
Connect ==
    /\ mainPc = "connect"
    /\ \E opened \in BOOLEAN :
         IF opened
         THEN /\ opens' = opens + 1
              /\ connState' = "open"
              /\ session' = "set"
              /\ mainPc' = "config"
         ELSE /\ opens' = opens
              /\ connState' = connState
              /\ session' = session
              /\ mainPc' = "cleanup"
    /\ UNCHANGED <<fwdPc, stopFlag, cancelReq, closes, recvActive, recvLockHeld,
                   recvResult, curEvent, received, wsSent, modelSent, clientIn,
                   nFrames, nEvents, credLog, toolRes, relayExit>>
    /\ UNCHANGED <<avars, pvars, tvars, svars>>

\* session.send(session.update) inside try/except, then
\* asyncio.create_task(self._forward_realtime_events())
SendConfig ==
    /\ mainPc = "config"
    /\ modelSent' = ModelSend(modelSent, ConfigEvent)
    /\ fwdPc' = "ready"
    /\ mainPc' = "recv_loop"
    /\ UNCHANGED <<stopFlag, cancelReq, session, connState, opens, closes,
                   recvActive, recvLockHeld, recvResult, curEvent, received, wsSent,
                   clientIn, nFrames, nEvents, credLog, toolRes, relayExit>>
    /\ UNCHANGED <<avars, pvars, tvars, svars>>

\* (mutant) the finally block sets the stop flag and leaves the task alone
EnterFinallyWithoutCancel ==
    /\ stopFlag' = TRUE
    /\ cancelReq' = FALSE
    /\ mainPc' = "wait_fwd"

\* the finally block of handle_connection up to its await: the stop flag is
\* set and forward_task.cancel() is called (a no-op on a finished task)
EnterFinally ==
    /\ stopFlag' = TRUE
    /\ cancelReq' = (fwdPc \notin Terminated)
    /\ mainPc' = "wait_fwd"

\* (mutant) audio that arrives while a tool call is handled is dropped
HandleAudioDataDropsDuringToolCall(n) ==
    IF session = "set" /\ fwdPc # "tool_sleep"
    THEN ModelSend(modelSent, AppendAudio(n)) ELSE modelSent

\* _handle_audio_data: the frame goes out base64-encoded when self.session is
\* set; an exception of session.send is logged and swallowed
HandleAudioData(n) ==
    IF session = "set" THEN ModelSend(modelSent, AppendAudio(n)) ELSE modelSent

\* (mutant) a frame that is neither audio nor the disconnect ends the session
UnknownFrameFatal ==
    /\ EnterFinally
    /\ modelSent' = modelSent

\* the else branch of the receive loop: a frame without "bytes" that is not
\* the disconnect is logged, and the loop goes on
UnknownFrame == UNCHANGED <<stopFlag, cancelReq, mainPc, modelSent>>

\* one iteration of the receive loop: websocket.receive() returns a frame
InboundReceive ==
    /\ mainPc = "recv_loop"
    /\ EventLoopFree
    /\ clientIn # <<>>
    /\ LET f == Head(clientIn) IN
         /\ clientIn' = Tail(clientIn)
         /\ CASE f[1] = "disconnect" ->
                   /\ EnterFinally
                   /\ modelSent' = modelSent
              [] f[1] = "audio" ->
                   /\ modelSent' = HandleAudioData(f[2])
                   /\ UNCHANGED <<stopFlag, cancelReq, mainPc>>
              [] OTHER -> UnknownFrame
    /\ UNCHANGED <<fwdPc, session, connState, opens, closes, recvActive,
                   recvLockHeld, recvResult, curEvent, received, wsSent,
                   nFrames, nEvents, credLog, toolRes, relayExit>>
    /\ UNCHANGED <<avars, pvars, tvars, svars>>

\* websocket.receive() raises: WebSocketDisconnect and any exception whose text
\* holds "disconnect" end the loop, a RuntimeError without it is re-raised
\* (the finally block runs all the same), anything else is logged
InboundReceiveRaises ==
    /\ mainPc = "recv_loop"
    /\ EventLoopFree
    /\ clientIn = <<>>
    /\ nFrames < MaxFrames
    /\ nFrames' = nFrames + 1
    /\ \E exc \in {"WebSocketDisconnect", "RuntimeError", "Exception"} :
         IF exc \in {"WebSocketDisconnect", "RuntimeError"}
         THEN EnterFinally
         ELSE UNCHANGED <<stopFlag, cancelReq, mainPc>>
    /\ UNCHANGED <<fwdPc, session, connState, opens, closes, recvActive,
                   recvLockHeld, recvResult, curEvent, received, wsSent, modelSent,
                   clientIn, nEvents, credLog, toolRes, relayExit>>
    /\ UNCHANGED <<avars, pvars, tvars, svars>>

\* asyncio.wait_for(forward_task, 2.0) returns once the task has ended (on a
\* timeout wait_for cancels the task and still waits for it to end); then the
\* with block is left, which closes the connection, and handle_connection returns
WaitForDone ==
    /\ mainPc = "wait_fwd"
    /\ EventLoopFree
    /\ fwdPc \in Terminated
    /\ closes' = closes + 1
    /\ connState' = "closed"
    /\ mainPc' = "cleanup"
    /\ UNCHANGED <<fwdPc, stopFlag, cancelReq, session, opens, recvActive,
                   recvLockHeld, recvResult, curEvent, received, wsSent, modelSent,
                   clientIn, nFrames, nEvents, credLog, toolRes, relayExit>>
    /\ UNCHANGED <<avars, pvars, tvars, svars>>

\* (mutant) an exception of session.close() leaves cleanup before the handle
\* is dropped
SessionAfterCleanupCloseRaises(closeOk) == IF closeOk THEN "none" ELSE session

\* self.session after cleanup: session.close() is called inside try/except, so
\* `self.session = None` runs whether the close raised or not
SessionAfterCleanup(closeOk) == "none"

\* (mutant) cleanup does nothing on a handler whose session was never set
CleanupBodyOnlyWithSession ==
    IF session = "set"
    THEN /\ stopFlag' = TRUE
         /\ closes' = closes + 1
         /\ \E closeOk \in BOOLEAN :
              connState' = IF closeOk THEN "closed" ELSE connState
         /\ session' = "none"
    ELSE UNCHANGED <<stopFlag, closes, connState, session>>

\* the body of cleanup: the stop flag is set; a session that is set is closed
\* (an exception of the close is logged) and the handle is dropped
CleanupBody ==
    /\ stopFlag' = TRUE
    /\ \E closeOk \in BOOLEAN :
         IF session = "set"
         THEN /\ closes' = closes + 1
              /\ connState' = IF closeOk THEN "closed" ELSE connState
              /\ session' = SessionAfterCleanup(closeOk)
         ELSE /\ UNCHANGED <<closes, connState>>
              /\ session' = "none"

\* cleanup, called from the finally block of websocket_endpoint
Cleanup ==
    /\ mainPc = "cleanup"
    /\ CleanupBody
    /\ mainPc' = "closed"
    /\ UNCHANGED <<fwdPc, cancelReq, opens, recvActive, recvLockHeld, recvResult,
                   curEvent, received, wsSent, modelSent, clientIn, nFrames,
                   nEvents, credLog, toolRes, relayExit>>
    /\ UNCHANGED <<avars, pvars, tvars, svars>>

\* cleanup invoked again on a handler that was cleaned up already
CleanupAgain ==
    /\ mainPc \in {"closed", "closed_again"}
    /\ CleanupBody
    /\ mainPc' = "closed_again"
    /\ UNCHANGED <<fwdPc, cancelReq, opens, recvActive, recvLockHeld, recvResult,
                   curEvent, received, wsSent, modelSent, clientIn, nFrames,
                   nEvents, credLog, toolRes, relayExit>>
    /\ UNCHANGED <<avars, pvars, tvars, svars>>

\* ----------------------------------------------- DuplexSession: environment
\* the client puts a frame on the websocket: audio, some other frame, or its
\* disconnect, after which it sends nothing (a frame sent while the session
\* connects waits in the same queue: it is taken as sent once the loop runs)
ClientSend ==
    /\ nFrames < MaxFrames
    /\ ~ClientGone
    /\ mainPc = "recv_loop"
    /\ nFrames' = nFrames + 1
    /\ \E k \in {"audio", "text", "disconnect"} :
         clientIn' = Append(clientIn, <<k, nFrames + 1>>)
    /\ UNCHANGED <<mainPc, fwdPc, stopFlag, cancelReq, session, connState, opens,
                   closes, recvActive, recvLockHeld, recvResult, curEvent, received,
                   wsSent, modelSent, nEvents, credLog, toolRes, relayExit>>
    /\ UNCHANGED <<avars, pvars, tvars, svars>>

\* the remote end drops the model connection
ConnDrop ==
    /\ connState = "open"
    /\ connState' = "broken"
    /\ UNCHANGED <<mainPc, fwdPc, stopFlag, cancelReq, session, opens, closes,
                   recvActive, recvLockHeld, recvResult, curEvent, received, wsSent,
                   modelSent, clientIn, nFrames, nEvents, credLog, toolRes, relayExit>>
    /\ UNCHANGED <<avars, pvars, tvars, svars>>

\* ------------------------------------- DuplexSession: _forward_realtime_events
\* (mutant) recv awaited under a timeout: the task goes on while the worker
\* thread is still inside session.recv
RecvAwaitTimesOut == TRUE

\* `await asyncio.to_thread(self.session.recv)` resumes only when the worker
\* thread has handed back an event or an exception: no timeout is put on it
RecvAwaitDone == recvResult.kind # "none"

\* the except clause of the relay's loop for an exception with text `kind`:
\* "closed", "disconnect" or "connection" in it ends the loop, so does the stop
\* flag; anything else is logged and the loop goes on after asyncio.sleep(0.1)
RelayExcept(kind, why) ==
    IF kind = "closed" \/ stopFlag
    THEN /\ fwdPc' = "done"
         /\ relayExit' = [why |-> why, at |-> fwdPc]
    ELSE /\ fwdPc' = "retry_sleep"
         /\ relayExit' = relayExit

\* await self.websocket.send_json(event_dict): the event goes to the client as
\* it is; the task is suspended there; a failure goes to the loop's except clause
ForwardToClient(e) ==
    \E o \in WsOutcomes :
      /\ wsSent' = Append(wsSent, [kind |-> "event", body |-> e, ok |-> (o = "ok")])
      /\ IF o = "ok"
         THEN /\ fwdPc' = "sent"
              /\ relayExit' = relayExit
         ELSE RelayExcept(o, "send_failed")

\* the arguments _handle_tool_call invokes the tool with: user_id is overwritten
\* with self.user_id, user_timezone is set by setdefault for the three tools
DuplexArgs(call) ==
    [uid |-> Caller,
     tz  |-> IF call.name \in TzTools /\ call.tz = Absent THEN StoredTz ELSE call.tz]

\* (mutant) the interception runs as a task of its own: the relay forwards the
\* event to the client as soon as the result is injected
InjectResultForwardingFirst(e, result) ==
    /\ modelSent' = ModelSend(modelSent, ItemCreate(e, result))
    /\ wsSent' = Append(wsSent, [kind |-> "event", body |-> e, ok |-> TRUE])
    /\ fwdPc' = "tool_sleep"
    /\ relayExit' = relayExit

\* "Provide tool result": session.send(conversation.item.create), then
\* `await asyncio.sleep(0.2)`; an exception of the send skips the rest of the
\* block, and _handle_tool_call returns to the relay, which forwards the event
InjectResult(e, result) ==
    /\ modelSent' = ModelSend(modelSent, ItemCreate(e, result))
    /\ IF SendOk
       THEN /\ fwdPc' = "tool_sleep"
            /\ UNCHANGED <<wsSent, relayExit>>
       ELSE ForwardToClient(e)

\* _handle_tool_call up to its first suspension or blocking call
HandleToolCall(e) ==
    CASE ~e.call.argsOk ->
           \* json.loads raises; the outer except logs it: no result, no send
           /\ toolRes' = "none"
           /\ modelSent' = modelSent
           /\ ForwardToClient(e)
      [] e.call.argsOk /\ e.call.name \notin ToolMapNames ->
           /\ toolRes' = "Error: Tool not found"
           /\ InjectResult(e, "Error: Tool not found")
      [] OTHER ->
           \* tool_func.invoke(arguments): a synchronous call on the event loop
           /\ toolRes' = "none"
           /\ fwdPc' = "in_tool"
           /\ UNCHANGED <<modelSent, wsSent, relayExit>>

\* (mutant) error events are handled on the server and kept from the client
HandleEventSuppressErrors(e) ==
    CASE e.type = "error" ->
           /\ fwdPc' = "sent"
           /\ UNCHANGED <<wsSent, relayExit, modelSent, toolRes>>
      [] e.type = ToolCallDone ->
           HandleToolCall(e)
      [] OTHER ->
           /\ ForwardToClient(e)
           /\ UNCHANGED <<modelSent, toolRes>>

\* the body of the relay's loop for one event
HandleEvent(e) ==
    CASE e.type = "error" ->
           /\ ForwardToClient(e)
           /\ UNCHANGED <<modelSent, toolRes>>
      [] e.type = ToolCallDone ->
           HandleToolCall(e)
      [] OTHER ->
           /\ ForwardToClient(e)
           /\ UNCHANGED <<modelSent, toolRes>>

\* the task runs from a suspension to the head of the loop: the stop flag is
\* checked, the lock is taken and session.recv is started in a worker thread
FwdRun ==
    /\ fwdPc \in {"ready", "sent", "retry_sleep"}
    /\ EventLoopFree
    /\ ~cancelReq
    /\ IF stopFlag
       THEN /\ fwdPc' = "done"
            /\ relayExit' = [why |-> "stop_flag", at |-> fwdPc]
            /\ UNCHANGED <<recvLockHeld, recvActive>>
       ELSE /\ fwdPc' = "recv_wait"
            /\ relayExit' = relayExit
            /\ recvLockHeld' = TRUE
            /\ recvActive' = recvActive + 1
    /\ curEvent' = NoEvent
    /\ UNCHANGED <<mainPc, stopFlag, cancelReq, session, connState, opens, closes,
                   recvResult, received, wsSent, modelSent, clientIn, nFrames,
                   nEvents, credLog, toolRes>>
    /\ UNCHANGED <<avars, pvars, tvars, svars>>

\* the worker thread's session.recv returns an event or raises (on a connection
\* that is not open it raises, with a text that names the closing or not); the
\* result goes to the task if it still awaits it
RecvThreadReturn ==
    /\ recvActive > 0
    /\ nEvents < MaxEvents
    /\ recvActive' = recvActive - 1
    /\ nEvents' = nEvents + 1
    /\ \E r \in IF connState = "open"
                THEN { [kind |-> "event", obj |-> [form |-> "model", body |-> ev]] :
                          ev \in ModelEvents(nEvents + 1) }
                     \cup { [kind |-> "other", obj |-> NoObj] }
                ELSE { [kind |-> k, obj |-> NoObj] : k \in {"closed", "other"} } :
         recvResult' = IF fwdPc = "recv_wait" /\ recvResult.kind = "none"
                       THEN r ELSE recvResult
    /\ UNCHANGED <<mainPc, fwdPc, stopFlag, cancelReq, session, connState, opens,
                   closes, recvLockHeld, curEvent, received, wsSent, modelSent,
                   clientIn, nFrames, credLog, toolRes, relayExit>>
    /\ UNCHANGED <<avars, pvars, tvars, svars>>

\* the task resumes from `await asyncio.to_thread(...)`: the lock is released and
\* the event is handled, or the exception takes the path of the except clauses
FwdGot ==
    /\ fwdPc = "recv_wait"
    /\ RecvAwaitDone
    /\ EventLoopFree
    /\ ~cancelReq
    /\ recvLockHeld' = FALSE
    /\ recvResult' = NoResult
    /\ CASE recvResult.kind = "event" ->
              LET e == EventToDict(recvResult.obj) IN
                /\ received' = Append(received, recvResult.obj.body)
                /\ curEvent' = e
                /\ HandleEvent(e)
         [] OTHER ->
              /\ RelayExcept(recvResult.kind, "recv_failed")
              /\ UNCHANGED <<received, curEvent, wsSent, modelSent, toolRes>>
    /\ UNCHANGED <<mainPc, stopFlag, cancelReq, session, connState, opens, closes,
                   recvActive, clientIn, nFrames, nEvents, credLog>>
    /\ UNCHANGED <<avars, pvars, tvars, svars>>

\* the text the dispatch of _handle_tool_call ends with: the tool's own text,
\* or "Error: ..." when invoke raises (the arguments do not validate)
InvokeResult(call) == IF call.valid THEN "text" ELSE "Error: raised"

\* tool_func.invoke returns (or raises) and the result is injected; a calendar
\* tool that ran has read the credentials of the user_id it was given
ToolReturn ==
    /\ fwdPc = "in_tool"
    /\ toolRes' = InvokeResult(curEvent.call)
    /\ credLog' = IF curEvent.call.valid /\ curEvent.call.name \in CalendarTools
                  THEN credLog \cup { [via |-> "duplex", caller |-> Caller,
                                       tool |-> curEvent.call.name,
                                       used |-> DuplexArgs(curEvent.call).uid,
                                       tz |-> DuplexArgs(curEvent.call).tz] }
                  ELSE credLog
    /\ InjectResult(curEvent, InvokeResult(curEvent.call))
    /\ UNCHANGED <<mainPc, stopFlag, cancelReq, session, connState, opens, closes,
                   recvActive, recvLockHeld, recvResult, curEvent, received,
                   clientIn, nFrames, nEvents>>
    /\ UNCHANGED <<avars, pvars, tvars, svars>>

\* the task resumes from asyncio.sleep(0.2): session.send(response.create), an
\* exception of which is logged; _handle_tool_call returns and the relay
\* forwards the event to the client
ToolSleepDone ==
    /\ fwdPc = "tool_sleep"
    /\ EventLoopFree
    /\ ~cancelReq
    /\ modelSent' = ModelSend(modelSent, ResponseCreate(curEvent))
    /\ ForwardToClient(curEvent)
    /\ UNCHANGED <<mainPc, stopFlag, cancelReq, session, connState, opens, closes,
                   recvActive, recvLockHeld, recvResult, curEvent, received,
                   clientIn, nFrames, nEvents, credLog, toolRes>>
    /\ UNCHANGED <<avars, pvars, tvars, svars>>

\* (mutant) the await of recv is shielded from cancellation
FwdSuspendedRecvShielded == {"ready", "sent", "tool_sleep", "retry_sleep"}

\* the suspensions of the task, where a requested cancellation is thrown
FwdSuspended == {"ready", "recv_wait", "sent", "tool_sleep", "retry_sleep"}

\* CancelledError is thrown into the task at its suspension: no except clause
\* of the relay holds it back (both re-raise), the lock is released on the way
\* out, and the worker thread, if any, stays in session.recv
FwdCancelled ==
    /\ cancelReq
    /\ fwdPc \in FwdSuspended
    /\ EventLoopFree
    /\ fwdPc' = "cancelled"
    /\ cancelReq' = FALSE
    /\ recvLockHeld' = FALSE
    /\ relayExit' = [why |-> "cancelled", at |-> fwdPc]
    /\ UNCHANGED <<mainPc, stopFlag, session, connState, opens, closes, recvActive,
                   recvResult, curEvent, received, wsSent, modelSent, clientIn,
                   nFrames, nEvents, credLog, toolRes>>
    /\ UNCHANGED <<avars, pvars, tvars, svars>>

\* ================================================================ AgentLoop
\* messages of State["messages"]: a HumanMessage, an AIMessage (content and
\* tool_calls) or a ToolMessage (content and tool_call_id)
Human(text)     == [role |-> "human", content |-> text, calls |-> <<>>, tcid |-> <<0, 0>>]
AI(text, calls) == [role |-> "ai", content |-> text, calls |-> calls, tcid |-> <<0, 0>>]
ToolMsg(text, id) == [role |-> "tool", content |-> text, calls |-> <<>>, tcid |-> id]

\* The tool calls the chat model is let to make: a calendar tool with the
\* caller's id, a calendar tool with another user's id and an offset, a name
\* that is no tool, and a tool whose arguments lack user_id (invoke raises a
\* validation error).
AgentCalls ==
    { [name |-> "check_availability", valid |-> TRUE, uid |-> Caller, tz |-> Absent],
      [name |-> "create_event", valid |-> TRUE, uid |-> Other, tz |-> ModelTz],
      [name |-> "delete_event", valid |-> TRUE, uid |-> Caller, tz |-> Absent],
      [name |-> "get_upcoming_events", valid |-> FALSE, uid |-> Absent, tz |-> Absent] }

\* the tool_calls of the r-th response: 1..MaxCalls calls, the i-th with id <<r, i>>
CallLists(r) ==
    UNION { { [i \in 1..n |-> [call |-> f[i], id |-> <<r, i>>]] : f \in [1..n -> AgentCalls] }
            : n \in 1..MaxCalls }

\* what llm_with_tools.invoke can answer in round r: a final answer (its content
\* may be empty) or a message that carries tool calls
Responses(r) ==
    { AI(t, <<>>) : t \in {"answer", ""} } \cup { AI("", cs) : cs \in CallLists(r) }

\* the exceptions llm_with_tools.invoke can raise, by what their text holds
Failures == {"tool_call_id mismatch", "timeout"}

\* graph.invoke(initial_state) is called without a config: the graph runs under
\* the default recursion_limit of the graph library, 25 nodes per invocation,
\* and raises GraphRecursionError when a node is due beyond it
RecursionLimit == 25
RecursionError == "Recursion limit of 25 reached without hitting a stop condition"

\* the users with a stored conversation
Users == {Caller, Other}

\* a conversation stored by earlier invocations
PriorTurns == << [role |-> "user", content |-> "hi"],
                 [role |-> "assistant", content |-> "answer"] >>

\* How the chat model answers: freely (any response, a turn explored for
\* MaxRounds invocations), or by a plan: a tool call in each of its first k
\* responses and a final answer after them, or a tool call in every response.
FreeModel == [mode |-> "free", k |-> 0]
ModelPlans ==
    { [mode |-> "stops", k |-> k] : k \in 0..(RecursionLimit \div 2 + 1) }
    \cup { [mode |-> "never", k |-> 0] }

\* the tool call of a planned response
PlannedCall == [name |-> "check_availability", valid |-> TRUE, uid |-> Caller, tz |-> Absent]

\* what llm_with_tools.invoke can answer as the r-th response of the turn
ModelAnswers(r) ==
    CASE stopAfter.mode = "free" -> Responses(r)
      [] stopAfter.mode = "never" \/ (stopAfter.mode = "stops" /\ r <= stopAfter.k) ->
           { AI("", << [call |-> PlannedCall, id |-> <<r, 1>>] >>) }
      [] OTHER -> { AI("answer", <<>>) }

AgentInit ==
    /\ agentPc = "idle"
    /\ messages = <<>>
    /\ rounds = 0
    /\ steps = 0
    /\ history = [u \in Users |-> PriorTurns]
    /\ dispatched = <<>>
    /\ saved = <<>>
    /\ failed = "none"
    /\ retval = <<"none", "">>

\* get_conversation_history(user_id, limit=10): the size of the window
HistoryLimit == 10

\* save_conversation_message(user_id, role, content)
SaveConversationMessage(h, u, role, content) ==
    [h EXCEPT ![u] = Append(@, [role |-> role, content |-> content])]

\* clear_conversation_history(user_id)
ClearConversationHistory(h, u) == [h EXCEPT ![u] = <<>>]

\* (mutant) the history is read after the new user message was saved
GetConversationHistoryAfterSave(u) ==
    LET h == Append(history[u], [role |-> "user", content |-> "hello"])
    IN IF Len(h) <= HistoryLimit THEN h
       ELSE SubSeq(h, Len(h) - HistoryLimit + 1, Len(h))

\* get_conversation_history(user_id, limit=10): the last 10 stored messages
GetConversationHistory(u) ==
    IF Len(history[u]) <= HistoryLimit THEN history[u]
    ELSE SubSeq(history[u], Len(history[u]) - HistoryLimit + 1, Len(history[u]))

\* the prompt of call_llm: [{"role": "system", ...}] + messages
SystemMessage == [role |-> "system", content |-> "system_prompt", calls |-> <<>>, tcid |-> <<0, 0>>]
Prompt(msgs) == <<SystemMessage>> \o msgs

\* Conversations a user can have stored when a turn starts: none, a short one,
\* one of twelve turns (longer than the window read back), and one that holds
\* a user turn of empty content (POST /chat accepts an empty message).
TurnTexts == << "t1", "t2", "t3", "t4", "t5", "t6", "t7", "t8", "t9", "t10", "t11", "t12" >>
LongTurns ==
    [i \in 1..Len(TurnTexts) |->
       [role |-> IF i % 2 = 1 THEN "user" ELSE "assistant", content |-> TurnTexts[i]]]
BlankTurns == << [role |-> "user", content |-> ""],
                 [role |-> "assistant", content |-> "answer"],
                 [role |-> "user", content |-> "hi"] >>
StoredConversations == { <<>>, PriorTurns, LongTurns, BlankTurns }

\* run_graph up to graph.invoke: the stored history becomes messages (empty
\* contents and stored "Error processing" replies are skipped), the new user
\* message is appended and saved
RunGraphStart ==
    /\ agentPc = "idle"
    /\ LET kept == SelectSeq(GetConversationHistory(Caller),
                             LAMBDA m : /\ m.content # ""
                                        /\ m.role \in {"user", "assistant"}
                                        /\ ~(m.role = "assistant"
                                              /\ m.content = "Error processing"))
           old == [i \in 1..Len(kept) |->
                     IF kept[i].role = "user" THEN Human(kept[i].content)
                     ELSE AI(kept[i].content, <<>>)]
       IN messages' = Append(old, Human("hello"))
    /\ history' = SaveConversationMessage(history, Caller, "user", "hello")
    /\ saved' = Append(saved, [role |-> "user", content |-> "hello"])
    /\ rounds' = 0
    /\ steps' = 0
    /\ agentPc' = "llm"
    /\ UNCHANGED <<dispatched, failed, retval, stopAfter>>
    /\ UNCHANGED <<dvars, pvars, tvars, svars>>

\* (mutant) the conditional edge always goes on to the tools node
ShouldContinueAlways(msgs) == "continue"

\* should_continue: END when the last message is an AIMessage without tool calls
ShouldContinue(msgs) ==
    IF msgs[Len(msgs)].role = "ai" /\ msgs[Len(msgs)].calls = <<>>
    THEN "END" ELSE "continue"

\* (mutant) every failure is taken for a tool-call format error
HasToolCallSignatureAny(e) == TRUE

\* the test of the except clause of run_graph: "tool_call" in str(e).lower()
HasToolCallSignature(e) == e = "tool_call_id mismatch"

\* the except clause of run_graph: a text with "tool_call" in it clears the
\* stored history and returns one fixed sentence, any other returns the
\* exception's own text behind "Error processing calendar request: "
RunGraphExcept(e) ==
    /\ agentPc' = "returned"
    /\ failed' = e
    /\ IF HasToolCallSignature(e)
       THEN /\ history' = ClearConversationHistory(history, Caller)
            /\ retval' = <<"I encountered an error with the previous conversation.", "">>
       ELSE /\ history' = history
            /\ retval' = <<"Error processing calendar request: ", e>>

\* (mutant) the graph runs without a limit on its steps
OutOfStepsNever(n) == FALSE

\* the graph has run its recursion_limit of nodes
OutOfSteps(n) == n >= RecursionLimit

\* node "llm" (call_llm) and the conditional edge after it; the invocation may
\* raise instead, which ends run_graph in its except clause
CallLLM ==
    /\ agentPc = "llm"
    /\ ~OutOfSteps(steps)
    /\ stopAfter.mode = "free" => rounds < MaxRounds
    /\ \/ \E rsp \in ModelAnswers(rounds + 1) :
            /\ messages' = Append(messages, rsp)
            /\ rounds' = rounds + 1
            /\ steps' = steps + 1
            /\ agentPc' = IF ShouldContinue(Append(messages, rsp)) = "END"
                          THEN "extract" ELSE "tools"
            /\ UNCHANGED <<history, retval, failed>>
       \/ \E e \in Failures :
            /\ RunGraphExcept(e)
            /\ UNCHANGED <<messages, rounds, steps>>
    /\ UNCHANGED <<dispatched, saved, stopAfter>>
    /\ UNCHANGED <<dvars, pvars, tvars, svars>>

\* the input process_tool_calls invokes a tool with: a copy of the model's
\* args, user_timezone overwritten for the three tools; user_id is the model's
AgentToolInput(c, tz) ==
    [name |-> c.call.name, id |-> c.id, valid |-> c.call.valid,
     uid |-> c.call.uid,
     tz  |-> IF c.call.name \in TzTools THEN tz ELSE c.call.tz]

\* the calls process_tool_calls acts on: those whose name is in tool_map
AgentDispatchable(c) == c.call.name \in ToolMapNames

\* the tool_results of process_tool_calls for the calls of one response, in
\* the order of the calls: the tool's text, or "Error: ..." when invoke raises
ToolResults(calls) ==
    LET acted == SelectSeq(calls, AgentDispatchable)
    IN [i \in 1..Len(acted) |->
          ToolMsg(IF acted[i].call.valid THEN "text" ELSE "Error: raised", acted[i].id)]

\* node "tools" (process_tool_calls) and the edge back to "llm"
ProcessToolCalls ==
    /\ agentPc = "tools"
    /\ ~OutOfSteps(steps)
    /\ LET calls == messages[Len(messages)].calls
           acted == SelectSeq(calls, AgentDispatchable)
       IN /\ messages' = messages \o ToolResults(calls)
          /\ dispatched' = dispatched \o
                [i \in 1..Len(acted) |-> AgentToolInput(acted[i], StoredTz)]
    /\ steps' = steps + 1
    /\ agentPc' = "llm"
    /\ UNCHANGED <<rounds, history, saved, failed, retval, stopAfter>>
    /\ UNCHANGED <<dvars, pvars, tvars, svars>>

\* a node is due and the graph has run its limit of nodes: graph.invoke raises
\* GraphRecursionError, which ends run_graph in its except clause
GraphOutOfSteps ==
    /\ agentPc \in {"llm", "tools"}
    /\ OutOfSteps(steps)
    /\ RunGraphExcept(RecursionError)
    /\ UNCHANGED <<messages, rounds, steps, dispatched, saved, stopAfter>>
    /\ UNCHANGED <<dvars, pvars, tvars, svars>>

\* "Extract the final response": the search for an AIMessage without a
\* tool_calls attribute finds none (every AIMessage has the attribute), so the
\* content of the last message is taken
FinalResponse(msgs) == msgs[Len(msgs)].content

\* return final_response or "No response generated"
ReturnValue(final) ==
    IF final # "" THEN <<"", final>> ELSE <<"No response generated", "">>

\* (mutant) the final response is saved whatever it holds
AssistantTurnAlways(final) == << [role |-> "assistant", content |-> final] >>

\* "Save assistant response to history": `if final_response:` guards the save
AssistantTurn(final) ==
    IF final # "" THEN << [role |-> "assistant", content |-> final] >> ELSE <<>>

\* run_graph after graph.invoke: a non-empty final response is saved as the
\* assistant's turn, and the response or the fixed text is returned
ExtractAndReturn ==
    /\ agentPc = "extract"
    /\ LET final == FinalResponse(messages)
           turn  == AssistantTurn(final)
       IN /\ history' = IF turn # <<>>
                        THEN SaveConversationMessage(history, Caller, turn[1].role,
                                                     turn[1].content)
                        ELSE history
          /\ saved' = saved \o turn
          /\ retval' = ReturnValue(final)
    /\ agentPc' = "returned"
    /\ UNCHANGED <<messages, rounds, steps, dispatched, failed, stopAfter>>
    /\ UNCHANGED <<dvars, pvars, tvars, svars>>

AgentNext ==
    \/ RunGraphStart
    \/ CallLLM
    \/ ProcessToolCalls
    \/ ExtractAndReturn

\* the turn against a chat model that answers by a plan: the limit on the
\* graph's steps comes into reach
LoopNext ==
    \/ RunGraphStart
    \/ CallLLM
    \/ ProcessToolCalls
    \/ GraphOutOfSteps
    \/ ExtractAndReturn

\* ==================================================== parse_timezone_offset
\* Strings are sequences of characters. The characters explored: the two
\* signs, the colon, three digits and a letter.
Chars == {"+", "-", ":", "0", "5", "9", "x"}
MaxOffLen == 6      \* length of the strings explored
OffsetStrings ==
    UNION { [1..n -> Chars] : n \in 0..MaxOffLen } \cup { <<"U", "T", "C">> }

IsDigit(c) == c \in {"0", "5", "9"}
DigitVal(c) == CASE c = "0" -> 0 [] c = "5" -> 5 [] c = "9" -> 9 [] OTHER -> 0

\* the value of a string of digits
RECURSIVE DigitsVal(_)
DigitsVal(t) ==
    IF t = <<>> THEN 0
    ELSE 10 * DigitsVal(SubSeq(t, 1, Len(t) - 1)) + DigitVal(t[Len(t)])

\* int(t): an optional sign and at least one digit, else ValueError
PyInt(t) ==
    LET signed == t # <<>> /\ t[1] \in {"+", "-"}
        body   == IF signed THEN Tail(t) ELSE t
    IN IF body = <<>> \/ \E i \in 1..Len(body) : ~IsDigit(body[i])
       THEN [ok |-> FALSE, val |-> 0]
       ELSE [ok |-> TRUE,
             val |-> IF signed /\ t[1] = "-" THEN 0 - DigitsVal(body) ELSE DigitsVal(body)]

\* t.split(":")
RECURSIVE SplitColon(_)
SplitColon(t) ==
    IF \A i \in 1..Len(t) : t[i] # ":"
    THEN << t >>
    ELSE LET i == CHOOSE k \in 1..Len(t) : t[k] = ":" /\ \A j \in 1..(k - 1) : t[j] # ":"
         IN << SubSeq(t, 1, i - 1) >> \o SplitColon(SubSeq(t, i + 1, Len(t)))

\* timezone.utc, as minutes east of UTC
UTC == <<"tz", 0>>

\* timezone(delta) raises ValueError unless -24h < delta < 24h
MinutesPerDay == 1440

\* parse_timezone_offset(offset_str): the timezone as minutes east of UTC.
\* ValueError and IndexError are caught and give UTC. (timedelta raises
\* OverflowError, which is not caught, for hours beyond about 2.4 * 10^10:
\* no string of the length explored gets there.)
ParseTimezoneOffset(str) ==
    IF str = <<>> \/ str = <<"U", "T", "C">> THEN UTC
    ELSE LET sign    == str[1]
             parts   == SplitColon(Tail(str))
             hours   == PyInt(parts[1])
             minutes == IF Len(parts) > 1 THEN PyInt(parts[2]) ELSE [ok |-> TRUE, val |-> 0]
             total   == hours.val * 60 + minutes.val
             delta   == IF sign = "+" THEN total ELSE 0 - total
         IN IF ~hours.ok \/ ~minutes.ok THEN UTC
            ELSE IF delta <= 0 - MinutesPerDay \/ delta >= MinutesPerDay THEN UTC
            ELSE <<"tz", delta>>

\* one call of parse_timezone_offset
ParseOffset ==
    /\ parsed[1] = "none"
    /\ \E str \in OffsetStrings :
         /\ offsetStr' = str
         /\ parsed' = ParseTimezoneOffset(str)
    /\ UNCHANGED <<dvars, avars, tvars, svars>>

ParseNext == ParseOffset

\* ============================================================ calendar tools
\* A datetime: a day number, the minute of the day and, when it is aware, its
\* offset in minutes east of UTC: [d, m, aware, off].

\* dt.replace(tzinfo=tz): the wall-clock reading is kept, the offset is set
ReplaceTzinfo(dt, off) == [dt EXCEPT !.aware = TRUE, !.off = off]

\* the instant of an aware datetime in minutes from day 0, 00:00 UTC (for a
\* naive one: its wall-clock reading in minutes)
Minutes(dt) == dt.d * MinutesPerDay + dt.m - dt.off

\* the aware datetime of an instant in an offset
FromMinutes(t, off) ==
    [d |-> (t + off) \div MinutesPerDay, m |-> (t + off) % MinutesPerDay,
     aware |-> TRUE, off |-> off]

\* (mutant) the offset is added where it has to be taken off
AsTimezoneWrongSign(dt, off) == FromMinutes(dt.d * MinutesPerDay + dt.m + dt.off, off)

\* dt.astimezone(tz) of an aware datetime: the same instant read in tz
AsTimezone(dt, off) == FromMinutes(Minutes(dt), off)

\* dt + timedelta(minutes=n): the wall-clock reading moves, the offset stays
PlusMinutes(dt, n) ==
    [dt EXCEPT !.d = (dt.d * MinutesPerDay + dt.m + n) \div MinutesPerDay,
               !.m = (dt.d * MinutesPerDay + dt.m + n) % MinutesPerDay]

\* Timestamp strings: an ISO datetime (with no offset, with a numeric offset,
\* or with "Z"), an ISO date, or a text that is no timestamp.
TimeStr(d, m, mark, off) == [form |-> "datetime", d |-> d, m |-> m, mark |-> mark, off |-> off]
DateStr(d) == [form |-> "date", d |-> d, m |-> 0, mark |-> "none", off |-> 0]
BadStr     == [form |-> "bad", d |-> 0, m |-> 0, mark |-> "none", off |-> 0]
UnknownStr == [form |-> "unknown", d |-> 0, m |-> 0, mark |-> "none", off |-> 0]

\* dt.isoformat(): an aware datetime ends with its offset, "+00:00" for UTC
Isoformat(dt) ==
    [form |-> "datetime", d |-> dt.d, m |-> dt.m,
     mark |-> IF dt.aware THEN "offset" ELSE "none", off |-> dt.off]

\* str.replace('+00:00', 'Z')
ReplaceOffsetByZ(str) ==
    IF str.mark = "offset" /\ str.off = 0 THEN [str EXCEPT !.mark = "Z"] ELSE str

\* str.replace('Z', '+00:00')
ReplaceZByOffset(str) ==
    IF str.mark = "Z" THEN [str EXCEPT !.mark = "offset", !.off = 0] ELSE str

\* datetime.fromisoformat(str): ValueError for a text that is no timestamp (the
\* callers replace a final "Z" before they parse, or never get one)
Fromisoformat(str) ==
    [ok |-> str.form \in {"datetime", "date"} /\ str.mark # "Z",
     dt |-> [d |-> str.d, m |-> str.m, aware |-> (str.mark = "offset"), off |-> str.off]]

\* format_datetime_for_api(dt): a naive datetime is taken as UTC, an aware one
\* is left in its offset; "+00:00" becomes "Z"
FormatDatetimeForApi(dt) ==
    ReplaceOffsetByZ(Isoformat(IF dt.aware THEN dt ELSE ReplaceTzinfo(dt, 0)))

\* the user_timezone argument: not given (None), or an offset string
NoTz    == [given |-> FALSE, str |-> <<>>]
TzPlus  == [given |-> TRUE, str |-> <<"+", "0", "5", ":", "5", "0">>]
TzMinus == [given |-> TRUE, str |-> <<"-", "0", "9", ":", "0", "0">>]
TzArgs  == {NoTz, TzPlus, TzMinus}

\* `if user_timezone is None: user_timezone = "+00:00"`, then
\* parse_timezone_offset(user_timezone), in minutes
UserOffset(tz) ==
    ParseTimezoneOffset(IF tz.given THEN tz.str ELSE <<"+", "0", "0", ":", "0", "0">>)[2]

\* The start and end arguments explored: offset-less datetimes of two days, a
\* date, datetimes that carry an offset, and a text that is no timestamp.
ArgTimes ==
    { TimeStr(d, m, "none", 0) : d \in {1, 2}, m \in {0, 540, 600, 1020, 1410} }
    \cup { DateStr(1), TimeStr(1, 540, "offset", 350), TimeStr(1, 1020, "offset", 350),
           TimeStr(1, 540, "offset", 0), BadStr }

\* the current time, as an instant: day 1, 10:00 UTC, or day 2, 23:00 UTC
Nows == { 1 * MinutesPerDay + 600, 2 * MinutesPerDay + 1380 }

\* The event records the calendar API returns. A timed event carries
\* start.dateTime and end.dateTime, RFC 3339 timestamps that always end with
\* "Z" or an offset; an all-day event carries start.date and end.date; a
\* malformed record lacks "start", or has a "start" with neither key.
TimedEvent(a, b) ==
    [ok |-> TRUE, kind |-> "dateTime",
     start |-> TimeStr(1, a, "Z", 0), end |-> TimeStr(1, b, "Z", 0)]
TimedEventAt(a, b, off) ==
    [ok |-> TRUE, kind |-> "dateTime",
     start |-> TimeStr(1, a, "offset", off), end |-> TimeStr(1, b, "offset", off)]
AllDayEvent(d) ==
    [ok |-> TRUE, kind |-> "date", start |-> DateStr(d), end |-> DateStr(d + 1)]
NoStartEvent == [ok |-> FALSE, kind |-> "none", start |-> UnknownStr, end |-> UnknownStr]
EmptyStartEvent == [ok |-> TRUE, kind |-> "empty", start |-> UnknownStr, end |-> UnknownStr]

\* the answers of events().list(...).execute() explored, each in start order
EventLists ==
    { <<>>,
      << TimedEvent(600, 630) >>,
      << TimedEvent(600, 630), TimedEvent(720, 780) >>,
      << TimedEvent(540, 660), TimedEvent(600, 630) >>,
      << TimedEvent(500, 570), TimedEvent(570, 600) >>,
      << TimedEvent(200, 400), TimedEvent(300, 560) >>,
      << TimedEventAt(950, 980, 350) >>,
      << AllDayEvent(1) >>,
      << TimedEvent(600, 630), NoStartEvent >>,
      << EmptyStartEvent >> }

\* What the collaborators do during one operation: all succeed, or
\* get_user_google_tokens raises ValueError (no such user), or building the
\* service or executing the request raises RefreshError or an HTTP error.
NoFailure == [at |-> "none", exc |-> "none"]
Envs ==
    { NoFailure, [at |-> "tokens", exc |-> "ValueError"] }
    \cup { [at |-> a, exc |-> e] : a \in {"build", "call"}, e \in {"RefreshError", "HttpError"} }

\* the answers of events().insert(...).execute(): an event with or without id
Createds == { [hasId |-> TRUE], [hasId |-> FALSE] }

\* the results of the operations
NoOut == [kind |-> "none", text |-> "", entries |-> <<>>]
Expired ==
    [kind |-> "expired",
     text |-> "Your Google account access has expired. Please log out and log back in to refresh your calendar permissions.",
     entries |-> <<>>]
ErrorText(prefix, exc) == [kind |-> "error", text |-> prefix, entries |-> <<exc>>]
Raised(exc) == [kind |-> "raised", text |-> "", entries |-> <<exc>>]

\* (mutant) the last except clause names the errors it expects
CaughtAsValueError(exc) == exc \in {"ValueError", "HttpError"}

\* `except Exception`: every exception the operations meet is an Exception
CaughtAsException(exc) == TRUE

\* the except clauses at the end of each operation: RefreshError gives the
\* fixed remediation text, any other Exception a text with the operation's
\* prefix and the exception's message
OnException(prefix, exc) ==
    IF exc = "RefreshError" THEN Expired
    ELSE IF CaughtAsException(exc) THEN ErrorText(prefix, exc)
    ELSE Raised(exc)

\* what an operation's try block does before it parses its arguments:
\* get_user_google_tokens and get_calendar_service
PreludeFails(env) == env.at \in {"tokens", "build"}

NoToolCall ==
    [name |-> "none", start |-> BadStr, end |-> BadStr, tz |-> NoTz, dur |-> 0,
     hours |-> 0, now |-> 0, env |-> NoFailure, items |-> <<>>, created |-> [hasId |-> TRUE]]

ToolInit ==
    /\ toolCall = NoToolCall
    /\ calRequests = <<>>
    /\ toolOut = NoOut
    /\ toolWarn = {}

\* the text of an event's start or end in a listing:
\* e['start'].get('dateTime', e['start'].get('date', 'Unknown'))
EventTimeText(ev, str) == IF ev.kind = "empty" THEN UnknownStr ELSE str

\* (mutant) records that cannot be read are left out of the list
BusyEventsSkipping(items) ==
    LET good == SelectSeq(items, LAMBDA ev : ev.ok /\ ev.kind # "empty")
    IN [exc |-> "none",
        entries |-> [i \in 1..Len(good) |-> << good[i].start, good[i].end >>]]

\* the loop of check_availability over the items: one entry per event, in the
\* order of the items; e['start'] raises KeyError on a record without it
BusyEvents(items) ==
    IF \E i \in 1..Len(items) : ~items[i].ok
    THEN [exc |-> "KeyError", entries |-> <<>>]
    ELSE [exc |-> "none",
          entries |-> [i \in 1..Len(items) |->
                         << EventTimeText(items[i], items[i].start),
                            EventTimeText(items[i], items[i].end) >>]]

\* check_availability(user_id, start, end): what it asks of the calendar and
\* what it returns
CheckAvailabilityRun(start, end, env, items) ==
    LET prefix == "Error checking availability"
        s   == Fromisoformat(start)
        e   == Fromisoformat(end)
        req == [op |-> "list", a |-> FormatDatetimeForApi(s.dt),
                b |-> FormatDatetimeForApi(e.dt)]
        busy == BusyEvents(items)
    IN IF PreludeFails(env)
       THEN [requests |-> <<>>, out |-> OnException(prefix, env.exc)]
       ELSE IF ~s.ok \/ ~e.ok
       THEN [requests |-> <<>>, out |-> OnException(prefix, "ValueError")]
       ELSE IF env.at = "call"
       THEN [requests |-> <<req>>, out |-> OnException(prefix, env.exc)]
       ELSE IF items = <<>>
       THEN [requests |-> <<req>>, out |-> [kind |-> "free", text |-> "", entries |-> <<>>]]
       ELSE IF busy.exc # "none"
       THEN [requests |-> <<req>>, out |-> OnException(prefix, busy.exc)]
       ELSE [requests |-> <<req>>,
             out |-> [kind |-> "conflicts", text |-> "", entries |-> busy.entries]]

\* one call of check_availability; the dispatchers pass user_timezone, which
\* is no parameter of the operation and is dropped
CheckAvailability ==
    /\ toolOut.kind = "none"
    /\ \E start \in ArgTimes, end \in ArgTimes, tz \in TzArgs, env \in Envs,
          items \in EventLists :
         /\ (env.at # "none" => items = <<>>)
         /\ toolCall' = [NoToolCall EXCEPT !.name = "check_availability",
                            !.start = start, !.end = end, !.tz = tz,
                            !.env = env, !.items = items]
         /\ calRequests' = CheckAvailabilityRun(start, end, env, items).requests
         /\ toolOut' = CheckAvailabilityRun(start, end, env, items).out
    /\ UNCHANGED toolWarn
    /\ UNCHANGED <<dvars, avars, pvars, svars>>

\* the meeting lengths explored, in minutes
Durations == {30, 60}

\* `if start_dt.time() == datetime.min.time(): start_dt = start_dt.replace(hour=9, minute=0)`
WidenStart(dt) == IF dt.m = 0 THEN [dt EXCEPT !.m = 540] ELSE dt

\* `if end_dt.time() == datetime.min.time(): end_dt = end_dt.replace(hour=17, minute=0)`
WidenEnd(dt) == IF dt.m = 0 THEN [dt EXCEPT !.m = 1020] ELSE dt

\* a slot of the result: [cursor, cursor + duration), as isoformat texts
Slot(cursor, dur) == << Isoformat(cursor), Isoformat(PlusMinutes(cursor, dur)) >>

\* x - y, x < y and max(x, y) raise TypeError when one datetime is naive and
\* the other aware
MixedAwareness(x, y) == x.aware # y.aware

\* (mutant) the cursor is set to the end of each event
AdvanceToEventEnd(cursor, eventEnd) == eventEnd

\* current_time = max(current_time, event_end): the cursor never moves back
Advance(cursor, eventEnd) ==
    IF Minutes(eventEnd) > Minutes(cursor) THEN eventEnd ELSE cursor

\* the loop of find_available_slots over the events, from event i on: the
\* exception it raises if any, the cursor it ends with, the slots it found
RECURSIVE ScanEvents(_, _, _, _, _)
ScanEvents(items, i, cursor, dur, slots) ==
    IF i > Len(items)
    THEN [exc |-> "none", cursor |-> cursor, slots |-> slots]
    ELSE LET ev == items[i]
             es == Fromisoformat(ReplaceZByOffset(ev.start))
             ee == Fromisoformat(ReplaceZByOffset(ev.end))
             gap == Minutes(es.dt) - Minutes(cursor)
         IN IF ~ev.ok
            THEN [exc |-> "KeyError", cursor |-> cursor, slots |-> slots]
            ELSE IF ev.kind = "empty"
            THEN [exc |-> "AttributeError", cursor |-> cursor, slots |-> slots]
            ELSE IF ~es.ok \/ ~ee.ok
            THEN [exc |-> "ValueError", cursor |-> cursor, slots |-> slots]
            ELSE IF MixedAwareness(es.dt, cursor) \/ MixedAwareness(ee.dt, cursor)
            THEN [exc |-> "TypeError", cursor |-> cursor, slots |-> slots]
            ELSE ScanEvents(items, i + 1, Advance(cursor, ee.dt), dur,
                            IF gap >= dur THEN Append(slots, Slot(cursor, dur)) ELSE slots)

\* the loop and the check of the time that is left after the last event
FindSlots(items, startDt, endDt, dur) ==
    LET scan == ScanEvents(items, 1, startDt, dur, <<>>)
    IN IF scan.exc # "none" THEN scan
       ELSE IF MixedAwareness(scan.cursor, endDt)
       THEN [scan EXCEPT !.exc = "TypeError"]
       ELSE IF Minutes(scan.cursor) < Minutes(endDt)
               /\ Minutes(endDt) - Minutes(scan.cursor) >= dur
       THEN [scan EXCEPT !.slots = Append(scan.slots, Slot(scan.cursor, dur))]
       ELSE scan

\* find_available_slots(user_id, start, end, duration_minutes)
FindAvailableSlotsRun(start, end, dur, env, items) ==
    LET prefix == "Error finding available slots"
        s   == Fromisoformat(start)
        e   == Fromisoformat(end)
        sd  == WidenStart(s.dt)
        ed  == WidenEnd(e.dt)
        req == [op |-> "list", a |-> FormatDatetimeForApi(sd),
                b |-> FormatDatetimeForApi(ed)]
        found == FindSlots(items, sd, ed, dur)
    IN IF PreludeFails(env)
       THEN [requests |-> <<>>, out |-> OnException(prefix, env.exc)]
       ELSE IF ~s.ok \/ ~e.ok
       THEN [requests |-> <<>>, out |-> OnException(prefix, "ValueError")]
       ELSE IF env.at = "call"
       THEN [requests |-> <<req>>, out |-> OnException(prefix, env.exc)]
       ELSE IF found.exc # "none"
       THEN [requests |-> <<req>>, out |-> OnException(prefix, found.exc)]
       ELSE IF found.slots # <<>>
       THEN [requests |-> <<req>>,
             out |-> [kind |-> "slots", text |-> "", entries |-> found.slots]]
       ELSE [requests |-> <<req>>,
             out |-> [kind |-> "no_slots", text |-> "", entries |-> <<>>]]

\* one call of find_available_slots; tz is the user's offset of the session,
\* which is no parameter of the operation and which no dispatcher passes to it
FindAvailableSlots ==
    /\ toolOut.kind = "none"
    /\ \E start \in ArgTimes, end \in ArgTimes, tz \in TzArgs, dur \in Durations,
          env \in Envs, items \in EventLists :
         /\ (env.at # "none" => items = <<>>)
         /\ toolCall' = [NoToolCall EXCEPT !.name = "find_available_slots",
                            !.start = start, !.end = end, !.tz = tz, !.dur = dur,
                            !.env = env, !.items = items]
         /\ calRequests' = FindAvailableSlotsRun(start, end, dur, env, items).requests
         /\ toolOut' = FindAvailableSlotsRun(start, end, dur, env, items).out
    /\ UNCHANGED toolWarn
    /\ UNCHANGED <<dvars, avars, pvars, svars>>

\* (mutant) a start in the past is refused
BlockedByPastStartRefusing(startLocal, now) == Minutes(startLocal) < now

\* create_event compares the start with the current time, prints a warning
\* ("Don't fail - just warn") and goes on: a past start never stops it
BlockedByPastStart(startLocal, now) == FALSE

\* create_event(user_id, title, start, end, description, user_timezone)
CreateEventRun(start, end, tz, now, env, created) ==
    LET prefix == "Error creating event"
        s   == Fromisoformat(start)
        e   == Fromisoformat(end)
        off == UserOffset(tz)
        sl  == ReplaceTzinfo(s.dt, off)
        el  == ReplaceTzinfo(e.dt, off)
        warn == IF Minutes(sl) < now THEN {"start_in_past"} ELSE {}
        req == [op |-> "insert", a |-> ReplaceOffsetByZ(Isoformat(AsTimezone(sl, 0))),
                b |-> ReplaceOffsetByZ(Isoformat(AsTimezone(el, 0)))]
    IN IF PreludeFails(env)
       THEN [requests |-> <<>>, warn |-> {}, out |-> OnException(prefix, env.exc)]
       ELSE IF ~s.ok \/ ~e.ok
       THEN [requests |-> <<>>, warn |-> {}, out |-> OnException(prefix, "ValueError")]
       ELSE IF BlockedByPastStart(sl, now)
       THEN [requests |-> <<>>, warn |-> warn,
             out |-> ErrorText("Error: start time is in the past", "none")]
       ELSE IF env.at = "call"
       THEN [requests |-> <<req>>, warn |-> warn,
             out |-> ErrorText("Error creating event: Google Calendar API error", env.exc)]
       ELSE IF ~created.hasId
       THEN [requests |-> <<req>>, warn |-> warn,
             out |-> ErrorText("Error: Event creation may have failed - no event ID returned", "none")]
       ELSE [requests |-> <<req>>, warn |-> warn,
             out |-> [kind |-> "created", text |-> "",
                      entries |-> << Isoformat(sl), Isoformat(el) >>]]

\* one call of create_event
CreateEvent ==
    /\ toolOut.kind = "none"
    /\ \E start \in ArgTimes, end \in ArgTimes, tz \in TzArgs, now \in Nows,
          env \in Envs, created \in Createds :
         /\ (env.at # "none" => created.hasId)
         /\ toolCall' = [NoToolCall EXCEPT !.name = "create_event",
                            !.start = start, !.end = end, !.tz = tz, !.now = now,
                            !.env = env, !.created = created]
         /\ calRequests' = CreateEventRun(start, end, tz, now, env, created).requests
         /\ toolWarn' = CreateEventRun(start, end, tz, now, env, created).warn
         /\ toolOut' = CreateEventRun(start, end, tz, now, env, created).out
    /\ UNCHANGED <<dvars, avars, pvars, svars>>

\* the look-ahead of get_upcoming_events explored, in hours
Hours == {24, 48}

\* the line of one event in the listing of get_upcoming_events: a timed event
\* is parsed (a final "Z" replaced) and shown in the user's offset; an all-day
\* event is shown by its date; a start that cannot be parsed is shown as it is
UpcomingEntry(ev, off) ==
    LET str == EventTimeText(ev, ev.start)
        p   == Fromisoformat(ReplaceZByOffset(str))
    IN IF str.form = "datetime" /\ p.ok
       THEN Isoformat(AsTimezone(IF p.dt.aware THEN p.dt ELSE ReplaceTzinfo(p.dt, 0), off))
       ELSE str

\* get_upcoming_events(user_id, hours, user_timezone)
GetUpcomingEventsRun(hours, tz, now, env, items) ==
    LET prefix == "Error fetching upcoming events"
        off == UserOffset(tz)
        req == [op |-> "list", a |-> FormatDatetimeForApi(FromMinutes(now, 0)),
                b |-> FormatDatetimeForApi(FromMinutes(now + hours * 60, 0))]
    IN IF PreludeFails(env)
       THEN [requests |-> <<>>, out |-> OnException(prefix, env.exc)]
       ELSE IF env.at = "call"
       THEN [requests |-> <<req>>, out |-> OnException(prefix, env.exc)]
       ELSE IF items = <<>>
       THEN [requests |-> <<req>>,
             out |-> [kind |-> "no_upcoming", text |-> "", entries |-> <<>>]]
       ELSE IF \E i \in 1..Len(items) : ~items[i].ok
       THEN [requests |-> <<req>>, out |-> OnException(prefix, "KeyError")]
       ELSE [requests |-> <<req>>,
             out |-> [kind |-> "upcoming", text |-> "",
                      entries |-> [i \in 1..Len(items) |-> UpcomingEntry(items[i], off)]]]

\* one call of get_upcoming_events
GetUpcomingEvents ==
    /\ toolOut.kind = "none"
    /\ \E hours \in Hours, tz \in TzArgs, now \in Nows, env \in Envs,
          items \in EventLists :
         /\ (env.at # "none" => items = <<>>)
         /\ toolCall' = [NoToolCall EXCEPT !.name = "get_upcoming_events",
                            !.hours = hours, !.tz = tz, !.now = now,
                            !.env = env, !.items = items]
         /\ calRequests' = GetUpcomingEventsRun(hours, tz, now, env, items).requests
         /\ toolOut' = GetUpcomingEventsRun(hours, tz, now, env, items).out
    /\ UNCHANGED toolWarn
    /\ UNCHANGED <<dvars, avars, pvars, svars>>

ToolsNext == CheckAvailability \/ FindAvailableSlots \/ CreateEvent \/ GetUpcomingEvents

\* ========================================================= conversation store
\* The conversations collection as save_conversation_message and
\* get_conversation_history use it. POST /chat is a synchronous endpoint, so
\* the server runs overlapping requests in separate threads and their saves
\* interleave at the store's calls: the existence check and the write are two
\* calls.
NumWriters == 2
Writers == 1..NumWriters

NoDocument == [exists |-> FALSE, messages |-> <<>>]
NoRead == [user |-> "none", messages |-> <<>>, completed |-> {}]

StoreInit ==
    /\ docs = [u \in Users |-> NoDocument]
    /\ savePc = [w \in Writers |-> "idle"]
    /\ saveUser = [w \in Writers |-> Caller]
    /\ saveSaw = [w \in Writers |-> FALSE]
    /\ readResult = NoRead

\* the message writer w appends: its content and timestamp are its own
MessageOf(w) == [role |-> "user", content |-> w]

\* firestore.ArrayUnion: the elements not yet in the array are added at its end
ArrayUnion(arr, msg) ==
    IF \E i \in 1..Len(arr) : arr[i] = msg THEN arr ELSE Append(arr, msg)

\* save_conversation_message, first call: conversation_ref.get().exists
SaveGetExists(w) ==
    /\ savePc[w] = "idle"
    /\ \E u \in Users :
         /\ saveUser' = [saveUser EXCEPT ![w] = u]
         /\ saveSaw' = [saveSaw EXCEPT ![w] = docs[u].exists]
    /\ savePc' = [savePc EXCEPT ![w] = "checked"]
    /\ UNCHANGED <<docs, readResult>>
    /\ UNCHANGED <<dvars, avars, pvars, tvars>>

\* the write of save_conversation_message: set() replaces the whole document
\* when the check saw none, update() with ArrayUnion otherwise
SetOrUpdate(doc, saw, msg) ==
    IF ~saw THEN [exists |-> TRUE, messages |-> <<msg>>]
    ELSE [exists |-> TRUE, messages |-> ArrayUnion(doc.messages, msg)]

\* save_conversation_message, second call: set or update
SaveSetOrUpdate(w) ==
    /\ savePc[w] = "checked"
    /\ docs' = [docs EXCEPT ![saveUser[w]] = SetOrUpdate(@, saveSaw[w], MessageOf(w))]
    /\ savePc' = [savePc EXCEPT ![w] = "done"]
    /\ UNCHANGED <<saveUser, saveSaw, readResult>>
    /\ UNCHANGED <<dvars, avars, pvars, tvars>>

\* the messages get_conversation_history(user_id) returns
StoredHistory(doc) ==
    IF ~doc.exists THEN <<>>
    ELSE SubSeq(doc.messages,
                IF Len(doc.messages) > HistoryLimit
                THEN Len(doc.messages) - HistoryLimit + 1 ELSE 1,
                Len(doc.messages))

\* get_conversation_history(user_id); the read also notes which saves for the
\* user had completed when it ran
ReadConversationHistory ==
    /\ \E u \in Users :
         readResult' = [user |-> u, messages |-> StoredHistory(docs[u]),
                        completed |-> {w \in Writers : savePc[w] = "done" /\ saveUser[w] = u}]
    /\ UNCHANGED <<docs, savePc, saveUser, saveSaw>>
    /\ UNCHANGED <<dvars, avars, pvars, tvars>>

StoreNext ==
    \/ \E w \in Writers : SaveGetExists(w)
    \/ \E w \in Writers : SaveSetOrUpdate(w)
    \/ ReadConversationHistory

\* ------------------------------------------------------ DuplexSession: Spec
DuplexNext ==
    \/ SendConfirmation
    \/ Connect
    \/ SendConfig
    \/ InboundReceive
    \/ InboundReceiveRaises
    \/ WaitForDone
    \/ Cleanup
    \/ CleanupAgain
    \/ ClientSend
    \/ ConnDrop
    \/ FwdRun
    \/ RecvThreadReturn
    \/ FwdGot
    \/ ToolReturn
    \/ ToolSleepDone
    \/ FwdCancelled

\* no call of parse_timezone_offset has been made
ParseInit ==
    /\ offsetStr = <<>>
    /\ parsed = <<"none", 0>>

Init == DuplexInit /\ AgentInit /\ ParseInit /\ ToolInit /\ StoreInit /\ stopAfter = FreeModel

LoopInit ==
    DuplexInit /\ AgentInit /\ ParseInit /\ ToolInit /\ StoreInit /\ stopAfter \in ModelPlans

SpecAgent == Init /\ [][AgentNext]_vars

SpecLoop == LoopInit /\ [][LoopNext]_vars

\* a turn of the caller against each of the conversations it can have stored
PromptInit ==
    /\ DuplexInit /\ ParseInit /\ ToolInit /\ StoreInit
    /\ agentPc = "idle"
    /\ messages = <<>>
    /\ rounds = 0
    /\ steps = 0
    /\ \E stored \in StoredConversations :
         history = [u \in Users |-> IF u = Caller THEN stored ELSE PriorTurns]
    /\ dispatched = <<>>
    /\ saved = <<>>
    /\ failed = "none"
    /\ retval = <<"none", "">>
    /\ stopAfter = FreeModel

SpecPrompt == PromptInit /\ [][AgentNext]_vars

SpecParse == Init /\ [][ParseNext]_vars

SpecTools == Init /\ [][ToolsNext]_vars

SpecStore == Init /\ [][StoreNext]_vars

SpecDuplex == Init /\ [][DuplexNext]_vars

\* The event loop runs a coroutine that is ready, and a ready callback is never
\* passed over for ever: weak fairness of the steps of the relay's task and of
\* handle_connection. Nothing is assumed of the client, of the model
\* connection, of the worker thread or of the calendar call.
RelayStep == FwdRun \/ FwdGot \/ ToolSleepDone \/ FwdCancelled
MainStep  == SendConfirmation \/ Connect \/ SendConfig \/ InboundReceive
             \/ WaitForDone \/ Cleanup

FairSpecDuplex == SpecDuplex /\ WF_vars(RelayStep) /\ WF_vars(MainStep)

\* ================================================================== claims
\* the bodies of the events the relay handed to websocket.send_json, in order
ForwardedBodies ==
    LET evs == SelectSeq(wsSent, LAMBDA m : m.kind = "event")
    IN [i \in 1..Len(evs) |-> evs[i].body]

\* C1: within one tool-call interception the conversation item is sent before
\* the response request and no other send on the model connection comes
\* between the two: every response.create on the connection directly follows
\* the conversation.item.create of the same interception.
C1_ItemThenResponseAdjacent ==
    \A j \in 1..Len(modelSent) :
       modelSent[j].type = "response.create" =>
          /\ j > 1
          /\ modelSent[j - 1].type = "conversation.item.create"
          /\ modelSent[j - 1].ref = modelSent[j].ref

\* C2: while a tool dispatch of the relay is in flight, the inbound relay can
\* still take a pending client frame and forward it.
C2_DispatchNeverBlocksInbound ==
    (fwdPc = "in_tool" /\ mainPc = "recv_loop" /\ clientIn # <<>>
                       /\ Head(clientIn)[1] = "audio")
       => ENABLED InboundReceive

\* C3: in every reachable state at most one session.recv call is in progress,
\* also after the relay was cancelled while its worker thread is still inside
\* recv; a relay that awaits recv holds the lock.
C3_AtMostOneRecv ==
    /\ recvActive <= 1
    /\ (fwdPc = "recv_wait" => recvLockHeld)

\* C3 witness: the relay was cancelled while it awaited recv, and the worker
\* thread is still inside recv.
C3_Witness ==
    /\ fwdPc = "cancelled"
    /\ relayExit.at = "recv_wait"
    /\ recvActive = 1

\* C4: once the inbound loop has ended the stop flag is set and the relay is
\* cancelled (or had ended already), and from there the relay's task ends and
\* handle_connection leaves its wait, in every run.
C4_StopTerminatesRelay ==
    /\ [](mainPc = "wait_fwd" => stopFlag /\ (cancelReq \/ fwdPc \in Terminated))
    /\ ((mainPc = "wait_fwd") ~> (fwdPc \in Terminated /\ mainPc \in {"cleanup", "closed"}))

\* C4 witness: the stop found the relay inside a tool-call interception (in
\* its sleep between the two sends); it was cancelled there and
\* handle_connection has returned.
C4_Witness ==
    /\ mainPc \in {"cleanup", "closed"}
    /\ relayExit = [why |-> "cancelled", at |-> "tool_sleep"]

\* C5: when the relay has stopped because recv failed, the session does not
\* stay Active: no step takes a further audio frame from the client and leaves
\* the inbound loop running with the stop flag down.
C5_RecvFailureDrains ==
    [][ (fwdPc = "done" /\ relayExit.why = "recv_failed" /\ mainPc = "recv_loop"
           /\ clientIn # <<>> /\ Head(clientIn)[1] = "audio")
          => ~(clientIn' = Tail(clientIn) /\ mainPc' = "recv_loop" /\ ~stopFlag') ]_vars

\* C6: the events handed to the client are the events received, each once,
\* unchanged and in the order received: what was forwarded is always a prefix
\* of what was received, at most the event in hand is outstanding, and nothing
\* is outstanding whenever the relay has gone on past an event.
C6_ForwardedOnceInOrder ==
    LET fw == ForwardedBodies IN
      /\ Len(fw) <= Len(received)
      /\ \A i \in 1..Len(fw) : fw[i] = received[i]
      /\ Len(received) - Len(fw) <= 1
      /\ (fwdPc \in {"recv_wait", "sent", "retry_sleep", "done"} => fw = received)

\* C6 witness: an error event and then a tool-call completion event were
\* received, and both reached the client.
C6_Witness ==
    /\ Len(received) = 2
    /\ received[1].type = "error"
    /\ received[2].type = ToolCallDone
    /\ fwdPc = "sent"
    /\ ForwardedBodies = received
    /\ \A i \in 1..Len(wsSent) : wsSent[i].ok

\* C7: one connection is opened, the configuration event is sent once and is
\* the first send on it, and the relay runs (the session is Active) only once
\* the configuration event has been sent.
C7_ConfigBeforeActive ==
    /\ opens <= 1
    /\ \A i \in 1..Len(modelSent) : (modelSent[i] = ConfigEvent) <=> (i = 1)
    /\ (fwdPc # "none" => Len(modelSent) >= 1)

\* the index of the last AIMessage of messages (0 when there is none)
LastAI ==
    LET S == { i \in 1..Len(messages) : messages[i].role = "ai" }
    IN IF S = {} THEN 0 ELSE CHOOSE i \in S : \A j \in S : j <= i

\* C8: when the model is about to be invoked again after a response with n >= 1
\* tool calls, exactly n tool-result turns follow that response, the i-th with
\* the id of the i-th call.
C8_ResultsMatchCalls ==
    (agentPc = "llm" /\ LastAI > 0 /\ messages[LastAI].calls # <<>>) =>
       LET calls == messages[LastAI].calls IN
         /\ Len(messages) - LastAI = Len(calls)
         /\ \A i \in 1..Len(calls) :
               /\ messages[LastAI + i].role = "tool"
               /\ messages[LastAI + i].tcid = calls[i].id

\* C9: a tool call whose name is not in the registry gets a text result that
\* reports the unknown tool: in AgentLoop a tool turn with the call's id, in
\* DuplexSession the injected conversation item.
C9_UnknownToolReported ==
    /\ (agentPc = "llm" /\ LastAI > 0) =>
          \A i \in 1..Len(messages[LastAI].calls) :
             LET c == messages[LastAI].calls[i] IN
               c.call.name \notin ToolMapNames =>
                  \E k \in (LastAI + 1)..Len(messages) :
                     /\ messages[k].role = "tool"
                     /\ messages[k].tcid = c.id
                     /\ messages[k].content = "Error: Tool not found"
    /\ (fwdPc = "tool_sleep" /\ curEvent.call.name \notin ToolMapNames) =>
          /\ toolRes = "Error: Tool not found"
          /\ \E k \in 1..Len(modelSent) :
                modelSent[k] = ItemCreate(curEvent, "Error: Tool not found")

\* C10: every calendar operation run through a dispatcher reads the
\* credentials of the authenticated caller, whatever user id the model wrote
\* into the arguments.
C10_CallerIdentityUsed ==
    /\ \A r \in credLog : r.used = r.caller
    /\ \A i \in 1..Len(dispatched) :
          (dispatched[i].name \in CalendarTools /\ dispatched[i].valid)
             => dispatched[i].uid = Caller

\* the turns save_conversation_message stored in this invocation for a role
SavedAs(role) == SelectSeq(saved, LAMBDA t : t.role = role)

\* C11 (as stated): a response without tool calls ends the loop with no tool
\* dispatch for it, and run_graph returns exactly the content of that response;
\* when the first response has no tool calls nothing is dispatched at all.
C11_NoToolCallsReturnsContent ==
    /\ agentPc = "tools" => messages[Len(messages)].calls # <<>>
    /\ (agentPc \in {"extract", "returned"} /\ failed = "none") =>
          /\ ShouldContinue(messages) = "END"
          /\ \A i \in 1..Len(dispatched) : dispatched[i].id[1] # rounds
          /\ rounds = 1 => dispatched = <<>>
    /\ (agentPc = "returned" /\ failed = "none") =>
          retval = <<"", messages[Len(messages)].content>>

\* C11 (amended): as stated, except that the value returned is the content of
\* the response only when that content is not empty; for an empty content it
\* is the fixed text "No response generated".
C11_NoToolCallsReturnsContentOrFixedText ==
    /\ agentPc = "tools" => messages[Len(messages)].calls # <<>>
    /\ (agentPc \in {"extract", "returned"} /\ failed = "none") =>
          /\ ShouldContinue(messages) = "END"
          /\ \A i \in 1..Len(dispatched) : dispatched[i].id[1] # rounds
          /\ rounds = 1 => dispatched = <<>>
    /\ (agentPc = "returned" /\ failed = "none") =>
          LET content == messages[Len(messages)].content IN
            /\ content # "" => retval = <<"", content>>
            /\ content = "" => retval = <<"No response generated", "">>

\* C11 witness: the first response carried no tool calls; run_graph returned
\* its content and nothing was dispatched.
C11_Witness ==
    /\ agentPc = "returned"
    /\ failed = "none"
    /\ rounds = 1
    /\ dispatched = <<>>
    /\ retval = <<"", "answer">>

\* C12 (as stated): an invocation saves exactly one user turn; it saves exactly
\* one assistant turn, the final answer, when it succeeds and none when it
\* fails; no tool result and no assistant message with tool calls is saved.
C12_OneUserOneAssistantTurn ==
    /\ agentPc # "idle" => Len(SavedAs("user")) = 1
    /\ \A i \in 1..Len(saved) :
          /\ saved[i].role \in {"user", "assistant"}
          /\ saved[i].content \in {"hello", "answer"}
    /\ (agentPc = "returned" /\ failed = "none") =>
          SavedAs("assistant") =
             << [role |-> "assistant", content |-> messages[Len(messages)].content] >>
    /\ failed # "none" => SavedAs("assistant") = <<>>

\* C12 (amended): as stated, except that a successful invocation saves its
\* one assistant turn only when the final answer is not empty; with an empty
\* final answer it saves no assistant turn.
C12_OneUserOneNonEmptyAssistantTurn ==
    /\ agentPc # "idle" => Len(SavedAs("user")) = 1
    /\ \A i \in 1..Len(saved) :
          /\ saved[i].role \in {"user", "assistant"}
          /\ saved[i].content \in {"hello", "answer"}
    /\ (agentPc = "returned" /\ failed = "none") =>
          LET content == messages[Len(messages)].content IN
            /\ content # "" =>
                  SavedAs("assistant") = << [role |-> "assistant", content |-> content] >>
            /\ content = "" => SavedAs("assistant") = <<>>
    /\ failed # "none" => SavedAs("assistant") = <<>>
    /\ (agentPc = "returned" /\ ~HasToolCallSignature(failed)) =>
          history[Caller] = PriorTurns \o saved

\* C12 witness: an invocation with a round of tool calls succeeded: the user
\* turn and the final answer are what it saved.
C12_Witness ==
    /\ agentPc = "returned"
    /\ failed = "none"
    /\ dispatched # <<>>
    /\ saved = << [role |-> "user", content |-> "hello"],
                  [role |-> "assistant", content |-> "answer"] >>

\* C13: whatever exception run_graph catches, it returns the one fixed apology:
\* the same text for every exception, with nothing of the exception's message.
C13_FixedApology ==
    (agentPc = "returned" /\ failed # "none") =>
       /\ retval[1] = "I encountered an error with the previous conversation."
       /\ retval[2] = ""

\* C14: when an invocation fails with a failure that has the signature of a
\* corrupted tool-call structure, the caller's stored history is empty on
\* return; when it fails otherwise the turns stored before the invocation are
\* still there; the history of another user is never touched.
C14_HistoryResetOnlyOnSignature ==
    /\ history[Other] = PriorTurns
    /\ (agentPc = "returned" /\ failed # "none") =>
          IF failed = "tool_call_id mismatch"
          THEN history[Caller] = <<>>
          ELSE /\ Len(history[Caller]) >= Len(PriorTurns)
               /\ SubSeq(history[Caller], 1, Len(PriorTurns)) = PriorTurns

\* C14 witness: an invocation failed with a tool_call_id error after a round of
\* tool calls; the caller's history is empty, the other user's is as it was.
C14_Witness ==
    /\ agentPc = "returned"
    /\ failed = "tool_call_id mismatch"
    /\ dispatched # <<>>
    /\ history[Caller] = <<>>
    /\ history[Other] = PriorTurns

C16_RecvFailureNotRetried ==
    [][ (fwdPc = "retry_sleep" /\ curEvent = NoEvent) => recvActive' <= recvActive ]_vars

\* C17: cleanup is idempotent and does not raise: after any invocation the stop
\* flag is set and the handle is dropped, whether the close succeeded or
\* raised, and an invocation after the first closes nothing and changes nothing
\* of the session.
C17_CleanupIdempotent ==
    [][ mainPc' \in {"closed", "closed_again"} =>
          /\ stopFlag'
          /\ session' = "none"
          /\ mainPc \in {"closed", "closed_again"} =>
                /\ closes' = closes
                /\ connState' = connState
                /\ stopFlag' = stopFlag
                /\ session' = session ]_vars

\* C17 witness: cleanup has run a second time on a session that had a model
\* connection.
C17_Witness ==
    /\ mainPc = "closed_again"
    /\ opens = 1
    /\ closes >= 1
    /\ session = "none"
    /\ stopFlag

\* the numbers of the frames whose append-audio event is on the model
\* connection, in the order of the events
AppendedFrames ==
    LET evs == SelectSeq(modelSent, LAMBDA m : m.type = "input_audio_buffer.append")
    IN [i \in 1..Len(evs) |-> evs[i].ref]

C19_BothFollowUpsSent ==
    (fwdPc = "sent" /\ curEvent.type = ToolCallDone /\ connState = "open") =>
       \E j, k \in 1..Len(modelSent) :
          /\ j < k
          /\ modelSent[j].type = "conversation.item.create"
          /\ modelSent[j].ref = curEvent.seq
          /\ modelSent[k] = ResponseCreate(curEvent)

\* a well-formed offset: a sign, two digits of hours up to 23, a colon, two
\* digits of minutes up to 59
WellFormed(str) ==
    /\ Len(str) = 6
    /\ str[1] \in {"+", "-"}
    /\ IsDigit(str[2]) /\ IsDigit(str[3])
    /\ str[4] = ":"
    /\ IsDigit(str[5]) /\ IsDigit(str[6])
    /\ DigitsVal(SubSeq(str, 2, 3)) <= 23
    /\ DigitsVal(SubSeq(str, 5, 6)) <= 59

\* C20: for every string that is not a well-formed "+HH:MM" or "-HH:MM" offset
\* parse_timezone_offset returns UTC and does not raise.
C20_MalformedGivesUTC ==
    (parsed[1] # "none" /\ ~WellFormed(offsetStr)) => parsed = UTC

\* ------------------------------------------------------------ calendar tools
\* the instant a timestamp of a request denotes, in minutes from day 0, 00:00 UTC
InstantOf(str) == str.d * MinutesPerDay + str.m - str.off

\* the wall-clock minutes of a timestamp argument
WallClock(str) == str.d * MinutesPerDay + str.m

\* the instant create_event submits as start for a timestamp and a user offset
CreateEventInstant(str, tz) ==
    InstantOf(CreateEventRun(str, str, tz, 0, NoFailure, [hasId |-> TRUE]).requests[1].a)

\* both arguments of the call were parsed
ArgsParsed == Fromisoformat(toolCall.start).ok /\ Fromisoformat(toolCall.end).ok

\* C21: for an offset-less start timestamp and the user's offset,
\* check_availability and find_available_slots query the calendar from the
\* instant that create_event submits for the same timestamp and offset: the
\* timestamp read as wall-clock time in the user's offset.
C21_SameLocalization ==
    ( /\ toolCall.name \in {"check_availability", "find_available_slots"}
      /\ calRequests # <<>>
      /\ toolCall.start.form = "datetime" /\ toolCall.start.mark = "none"
      /\ toolCall.start.m # 0 )
    => /\ InstantOf(calRequests[1].a) = CreateEventInstant(toolCall.start, toolCall.tz)
       /\ InstantOf(calRequests[1].a) = WallClock(toolCall.start) - UserOffset(toolCall.tz)

\* C22: create_event with an end that is not after its start gives an error
\* result and submits no insert request.
C22_InvalidIntervalRefused ==
    ( /\ toolCall.name = "create_event"
      /\ toolCall.env = NoFailure
      /\ ArgsParsed
      /\ WallClock(toolCall.end) <= WallClock(toolCall.start) )
    => /\ calRequests = <<>>
       /\ toolOut.kind = "error"

\* C23: the UTC start and end create_event submits for start < end are the
\* wall-clock start and end minus the user's offset, marked "Z", and read back
\* in the same offset they are the requested wall-clock start and end, day
\* included.
C23_RoundTrip ==
    ( /\ toolCall.name = "create_event"
      /\ calRequests # <<>>
      /\ WallClock(toolCall.start) < WallClock(toolCall.end) )
    => LET off  == UserOffset(toolCall.tz)
           back(str) == AsTimezone(Fromisoformat(ReplaceZByOffset(str)).dt, off)
       IN /\ calRequests[1].a.mark = "Z" /\ calRequests[1].b.mark = "Z"
          /\ InstantOf(calRequests[1].a) = WallClock(toolCall.start) - off
          /\ InstantOf(calRequests[1].b) = WallClock(toolCall.end) - off
          /\ back(calRequests[1].a).d = toolCall.start.d
          /\ back(calRequests[1].a).m = toolCall.start.m
          /\ back(calRequests[1].b).d = toolCall.end.d
          /\ back(calRequests[1].b).m = toolCall.end.m

\* a start before the offset's distance from midnight: its UTC day is the day
\* before (positive offset) or the day after (negative offset)
C23_Witness ==
    /\ toolCall.name = "create_event"
    /\ toolOut.kind = "created"
    /\ toolCall.tz = TzPlus
    /\ WallClock(toolCall.start) < WallClock(toolCall.end)
    /\ calRequests[1].a.d # toolCall.start.d
    /\ calRequests[1].b.d = toolCall.end.d

\* the collaborator failure of the call was raised: the service was being
\* built, or the request was executed
FailureRaised ==
    \/ toolCall.env.at = "build"
    \/ toolCall.env.at = "call" /\ calRequests # <<>>

\* C24: in each of the four operations a credential-refresh failure of the
\* calendar collaborator (building the service, listing, inserting) gives
\* exactly the fixed remediation text, and every other collaborator failure a
\* diagnostic error string.
C24_RefreshRemediation ==
    (toolCall.name # "none" /\ FailureRaised)
    => IF toolCall.env.exc = "RefreshError"
       THEN toolOut = Expired
       ELSE toolOut.kind = "error"

\* something failed inside the operation: a collaborator, the parsing of the
\* arguments, an event record that lacks what the operation reads, an insert
\* that answers without an id
OperationFailed ==
    \/ toolCall.env.at # "none"
    \/ toolCall.name \in {"check_availability", "find_available_slots", "create_event"}
       /\ ~ArgsParsed
    \/ \E i \in 1..Len(toolCall.items) : ~toolCall.items[i].ok
    \/ toolCall.name = "find_available_slots"
       /\ \E i \in 1..Len(toolCall.items) : toolCall.items[i].kind = "empty"
    \/ toolCall.name = "create_event" /\ ~toolCall.created.hasId

\* C25: each operation returns a text for every outcome of its collaborators:
\* no exception leaves it, and a failure is reported as an error text, never as
\* a success and never as an empty result.
C25_AlwaysText ==
    toolCall.name # "none"
    => /\ toolOut.kind \in {"free", "conflicts", "slots", "no_slots", "created",
                            "upcoming", "no_upcoming", "expired", "error"}
       /\ OperationFailed => (toolOut.kind \in {"expired", "error"} /\ toolOut.text # "")

\* a listing whose second record has no start: the KeyError is reported
C25_Witness ==
    /\ toolCall.name = "get_upcoming_events"
    /\ toolCall.env = NoFailure
    /\ Len(toolCall.items) = 2
    /\ toolOut = ErrorText("Error fetching upcoming events", "KeyError")

\* the cursor scan over instants: the starts of the slots it emits
RECURSIVE CursorScan(_, _, _, _, _)
CursorScan(events, i, cursor, endAt, dur) ==
    IF i > Len(events)
    THEN IF endAt - cursor >= dur THEN <<cursor>> ELSE <<>>
    ELSE (IF events[i][1] - cursor >= dur THEN <<cursor>> ELSE <<>>)
         \o CursorScan(events, i + 1,
                       IF events[i][2] > cursor THEN events[i][2] ELSE cursor,
                       endAt, dur)

\* C26: for offset-less arguments and timed events as the calendar returns
\* them, find_available_slots returns exactly the slots of the cursor scan
\* over the queried window; for 09:00-17:00, 30 minutes and the one event
\* 10:00-10:30 these are 09:00-09:30 and 10:30-11:00.
C26_CursorScanSlots ==
    ( /\ toolCall.name = "find_available_slots"
      /\ toolCall.env = NoFailure
      /\ ArgsParsed
      /\ toolCall.start.mark = "none" /\ toolCall.end.mark = "none"
      /\ \A i \in 1..Len(toolCall.items) : toolCall.items[i].kind = "dateTime" )
    => LET expected ==
               CursorScan([i \in 1..Len(toolCall.items) |->
                             << InstantOf(toolCall.items[i].start),
                                InstantOf(toolCall.items[i].end) >>],
                          1, InstantOf(calRequests[1].a), InstantOf(calRequests[1].b),
                          toolCall.dur)
       IN /\ toolOut.kind \in {"slots", "no_slots"}
          /\ Len(toolOut.entries) = Len(expected)
          /\ \A k \in 1..Len(expected) :
               /\ InstantOf(toolOut.entries[k][1]) = expected[k]
               /\ InstantOf(toolOut.entries[k][2]) = expected[k] + toolCall.dur
          /\ ( /\ toolCall.start = TimeStr(1, 540, "none", 0)
               /\ toolCall.end = TimeStr(1, 1020, "none", 0)
               /\ toolCall.dur = 30
               /\ toolCall.items = << TimedEvent(600, 630) >> )
             => expected = << 1 * MinutesPerDay + 540, 1 * MinutesPerDay + 630 >>

\* the calendar answered the listing of the call
Listed == toolCall.env = NoFailure /\ ArgsParsed

\* C27: check_availability returns "free" exactly when the calendar answered
\* with zero events, so never after a failed collaborator call; when events
\* exist it returns one conflict entry per event in the calendar's order, and
\* a conflict list is never empty.
C27_FreeOnlyWhenNoEvents ==
    toolCall.name = "check_availability"
    => /\ toolOut.kind = "free" <=> (Listed /\ toolCall.items = <<>>)
       /\ ( /\ Listed
            /\ toolCall.items # <<>>
            /\ \A i \in 1..Len(toolCall.items) : toolCall.items[i].ok )
          => /\ toolOut.kind = "conflicts"
             /\ Len(toolOut.entries) = Len(toolCall.items)
             /\ \A i \in 1..Len(toolCall.items) :
                  toolOut.entries[i] = << EventTimeText(toolCall.items[i], toolCall.items[i].start),
                                          EventTimeText(toolCall.items[i], toolCall.items[i].end) >>
       /\ toolOut.kind = "conflicts" => toolOut.entries # <<>>

C27_Witness ==
    /\ toolCall.name = "check_availability"
    /\ Len(toolCall.items) = 2
    /\ toolOut.kind = "conflicts"
    /\ toolOut.entries[2][1] = toolCall.items[2].start
    /\ toolOut.entries[1][1] # toolOut.entries[2][1]

\* C28: every timestamp format_datetime_for_api returns, for a datetime with
\* or without an offset, is in UTC and marked "Z": it carries no non-zero
\* offset and no "+00:00".
C28_AlwaysZ ==
    \A i \in 1..Len(calRequests) :
      calRequests[i].op = "list"
      => /\ calRequests[i].a.mark = "Z" /\ calRequests[i].a.off = 0
         /\ calRequests[i].b.mark = "Z" /\ calRequests[i].b.off = 0

\* the start of the call is before the current time
StartInPast ==
    WallClock(toolCall.start) - UserOffset(toolCall.tz) < toolCall.now

\* C29: create_event with a start before the current time is not blocked:
\* with its collaborators succeeding it submits exactly one insert request
\* and returns the confirmation; the past start is only flagged as a warning.
C29_PastStartOnlyWarns ==
    ( /\ toolCall.name = "create_event"
      /\ toolCall.env = NoFailure
      /\ ArgsParsed
      /\ toolCall.created.hasId
      /\ StartInPast )
    => /\ Len(calRequests) = 1
       /\ calRequests[1].op = "insert"
       /\ toolOut.kind = "created"
       /\ toolWarn = {"start_in_past"}

C29_Witness ==
    /\ toolCall.name = "create_event"
    /\ StartInPast
    /\ toolCall.tz = TzMinus
    /\ toolOut.kind = "created"
    /\ toolWarn = {"start_in_past"}
    /\ Len(calRequests) = 1

\* ------------------------------------------------------- conversation store
\* the message of writer w is in the stored history of its user
Stored(w) ==
    \E i \in 1..Len(docs[saveUser[w]].messages) :
        docs[saveUser[w]].messages[i] = MessageOf(w)

\* C30: appends are serialized per user: the turn of every append that
\* completed is in its user's history, also when the user had no record, and
\* every read returns the turns of the appends that had completed before it.
C30_AppendsSerialized ==
    /\ \A w \in Writers : savePc[w] = "done" => Stored(w)
    /\ \A w \in readResult.completed :
         \E i \in 1..Len(readResult.messages) : readResult.messages[i] = MessageOf(w)

\* ------------------------------------------------------------ tool dispatch
\* C31: a time-sensitive tool always runs with the offset stored for the
\* request or connection: an offset the model wrote into the arguments never
\* replaces it, in the dispatch of DuplexSession as in that of AgentLoop.
C31_StoredOffsetUsed ==
    /\ \A r \in credLog : r.tool \in TzTools => r.tz = StoredTz
    /\ \A i \in 1..Len(dispatched) :
         dispatched[i].name \in TzTools => dispatched[i].tz = StoredTz

\* the relay is inside _handle_tool_call: in the tool, or in the sleep between
\* the two sends of the interception
Intercepting == fwdPc \in {"in_tool", "tool_sleep"}

\* C32: tool dispatch blocks the outbound flow: from the receipt of a
\* tool-call completion event to the response-request send of its
\* interception the relay starts no receive on the model connection and
\* forwards nothing to the client, and the completion event itself is
\* forwarded only when the interception has finished.
C32_DispatchBlocksRelay ==
    [][ Intercepting
        => /\ recvActive' <= recvActive
           /\ recvLockHeld' = recvLockHeld
           /\ received' = received
           /\ wsSent' # wsSent
              => /\ wsSent' = Append(wsSent, wsSent'[Len(wsSent')])
                 /\ wsSent'[Len(wsSent')].body = curEvent
                 /\ fwdPc' \notin {"in_tool", "tool_sleep"}
                 /\ fwdPc = "tool_sleep"
                    => /\ Len(modelSent') > 0
                       /\ modelSent'[Len(modelSent')] = ResponseCreate(curEvent)
                          \/ ~SendOk ]_vars

\* an interception that made both sends and then forwarded its event
C32_Witness ==
    /\ fwdPc = "sent"
    /\ curEvent.type = ToolCallDone
    /\ Len(modelSent) >= 3
    /\ modelSent[Len(modelSent)] = ResponseCreate(curEvent)
    /\ modelSent[Len(modelSent) - 1].type = "conversation.item.create"
    /\ wsSent[Len(wsSent)].body = curEvent

\* websocket_endpoint has run handler.cleanup()
CleanedUp == mainPc \in {"closed", "closed_again"}

\* C33: the session's state does not outlive its connection: whenever
\* handle_connection ends (after the client's disconnect, after an exception,
\* after a failure to open the model connection) cleanup is invoked, and from
\* then on the stop flag is set, the connection handle is released, and no
\* send and no receive is made on the model connection.
C33_StateEndsWithConnection ==
    /\ (mainPc = "cleanup") ~> CleanedUp
    /\ [](CleanedUp => stopFlag /\ session = "none" /\ ~recvLockHeld)
    /\ [][CleanedUp => modelSent' = modelSent /\ recvActive' <= recvActive]_vars

\* the model connection could not be opened: cleanup still ran
C33_Witness ==
    /\ mainPc = "closed"
    /\ opens = 0
    /\ connState = "none"
    /\ stopFlag

\* the receive loop takes the frame at the head of the client's queue
Takes(kind) ==
    /\ mainPc = "recv_loop"
    /\ clientIn # <<>>
    /\ Head(clientIn)[1] = kind
    /\ clientIn' = Tail(clientIn)

\* C34: a client frame that is neither audio nor the disconnect is ignored:
\* nothing is sent on the model connection, the stop flag is not set, and the
\* session stays active with both relays running; an audio frame whose
\* forwarding fails does not end the session either.
C34_UnknownFrameIgnored ==
    [][ /\ Takes("text")
           => /\ modelSent' = modelSent
              /\ stopFlag' = stopFlag /\ cancelReq' = cancelReq
              /\ mainPc' = "recv_loop" /\ fwdPc' = fwdPc
              /\ connState' = connState /\ session' = session
        /\ (Takes("audio") /\ ~SendOk)
           => /\ modelSent' = modelSent
              /\ stopFlag' = stopFlag /\ cancelReq' = cancelReq
              /\ mainPc' = "recv_loop" /\ fwdPc' = fwdPc ]_vars

\* the one frame the client sent was taken by the receive loop, nothing went
\* out on the open model connection but the configuration, and both relays run
C34_Witness ==
    /\ nFrames = 1
    /\ clientIn = <<>>
    /\ mainPc = "recv_loop"
    /\ fwdPc = "recv_wait"
    /\ ~stopFlag
    /\ connState = "open"
    /\ modelSent = << ConfigEvent >>

\* ---------------------------------------------------------------- the prompt
\* run_graph has built the messages and the model was not invoked yet
BeforeFirstInvocation == agentPc = "llm" /\ rounds = 0

\* the conversation that was stored when the turn started: run_graph has
\* appended the new user turn to it
StoredAtStart == SubSeq(history[Caller], 1, Len(history[Caller]) - 1)

\* the last HistoryLimit turns of a conversation
RecentWindow(turns) ==
    SubSeq(turns, IF Len(turns) > HistoryLimit THEN Len(turns) - HistoryLimit + 1 ELSE 1,
           Len(turns))

\* stored turns as messages of the prompt
AsMessages(turns) ==
    [i \in 1..Len(turns) |->
       IF turns[i].role = "user" THEN Human(turns[i].content)
       ELSE AI(turns[i].content, <<>>)]

\* the stored turns that have text and are no stored error reply
Worded(turns) ==
    SelectSeq(turns, LAMBDA m : /\ m.content # ""
                                /\ ~(m.role = "assistant" /\ m.content = "Error processing"))

\* C35 as claimed: the prompt of the first model invocation is the system
\* preamble, then the recent window of at most 10 persisted turns in their
\* stored order, then the new user turn exactly once, as the last turn.
C35_PromptIsWindowThenTurn ==
    BeforeFirstInvocation
    => Prompt(messages) = <<SystemMessage>>
                          \o AsMessages(RecentWindow(StoredAtStart))
                          \o << Human("hello") >>

\* C35: the prompt of the first model invocation is the system preamble, then
\* the turns of the recent window of at most 10 persisted turns that have
\* text and are no stored "Error processing" reply, in their stored order,
\* then the new user turn exactly once, as the last turn.
C35_PromptIsWordedWindowThenTurn ==
    BeforeFirstInvocation
    => /\ Prompt(messages) = <<SystemMessage>>
                             \o AsMessages(Worded(RecentWindow(StoredAtStart)))
                             \o << Human("hello") >>
       /\ Len(messages) <= HistoryLimit + 1
       /\ Cardinality({i \in 1..Len(messages) : messages[i] = Human("hello")}) = 1

\* a stored conversation longer than the window: the prompt holds ten of its
\* turns and the new one
C35_Witness ==
    /\ BeforeFirstInvocation
    /\ Len(history[Caller]) = Len(LongTurns) + 1
    /\ Len(messages) = HistoryLimit + 1
    /\ messages[1] = AI("t3", <<>>) \/ messages[1] = Human("t3")

\* ------------------------------------------------------------- slot search
\* the interval of the call carries only a date: both timestamps are midnight
DateOnly == toolCall.start.m = 0 /\ toolCall.end.m = 0

\* C36: find_available_slots widens the interval to 09:00-17:00 only when
\* both start and end are midnight timestamps; an interval whose start or end
\* carries a time of day is searched with exactly the bounds given, and the
\* searched window has its start before its end whenever the requested
\* interval did.
C36_WidenedOnlyForDates ==
    ( /\ toolCall.name = "find_available_slots"
      /\ calRequests # <<>>
      /\ toolCall.start.mark = "none" /\ toolCall.end.mark = "none" )
    => /\ DateOnly => /\ calRequests[1].a.m = 540 /\ calRequests[1].a.d = toolCall.start.d
                      /\ calRequests[1].b.m = 1020 /\ calRequests[1].b.d = toolCall.end.d
       /\ ~DateOnly => /\ WallClock(calRequests[1].a) = WallClock(toolCall.start)
                       /\ WallClock(calRequests[1].b) = WallClock(toolCall.end)
       /\ WallClock(toolCall.start) < WallClock(toolCall.end)
          => WallClock(calRequests[1].a) < WallClock(calRequests[1].b)

\* the searched window and the events of the call, as instants
WindowStart == InstantOf(calRequests[1].a)
WindowEnd   == InstantOf(calRequests[1].b)
EventStart(i) == InstantOf(toolCall.items[i].start)
EventEnd(i)   == InstantOf(toolCall.items[i].end)

\* the answer of the listing is one the calendar gives for the window: events
\* that overlap it, in the order of their starts
EventsOfWindow ==
    /\ WindowStart < WindowEnd
    /\ \A i \in 1..Len(toolCall.items) :
         /\ toolCall.items[i].kind \in {"dateTime", "date"}
         /\ EventStart(i) <= EventEnd(i)
         /\ EventStart(i) < WindowEnd /\ EventEnd(i) > WindowStart
         /\ i > 1 => EventStart(i - 1) <= EventStart(i)

\* C38: every slot find_available_slots proposes has the requested duration,
\* lies inside the searched window, overlaps no event and starts strictly
\* later than the slot before it; there are at most as many slots as events
\* plus one. Overlapping, nested and back-to-back events and events that
\* begin before the window are among the listings.
C38_SlotsWellPlaced ==
    ( /\ toolCall.name = "find_available_slots"
      /\ toolOut.kind = "slots"
      /\ EventsOfWindow )
    => LET slotStart(k) == InstantOf(toolOut.entries[k][1])
           slotEnd(k)   == InstantOf(toolOut.entries[k][2])
       IN /\ Len(toolOut.entries) <= Len(toolCall.items) + 1
          /\ \A k \in 1..Len(toolOut.entries) :
               /\ slotEnd(k) - slotStart(k) = toolCall.dur
               /\ WindowStart <= slotStart(k) /\ slotEnd(k) <= WindowEnd
               /\ \A i \in 1..Len(toolCall.items) :
                    slotEnd(k) <= EventStart(i) \/ EventEnd(i) <= slotStart(k)
               /\ k > 1 => slotStart(k - 1) < slotStart(k)

\* two slots around a timed event, found for a window given with offsets
C38_Witness ==
    /\ toolCall.name = "find_available_slots"
    /\ toolOut.kind = "slots"
    /\ EventsOfWindow
    /\ toolCall.items # <<>>
    /\ toolCall.items[1].kind = "dateTime"
    /\ Len(toolOut.entries) = 2

\* --------------------------------------------------------- session lifetime
\* C37: the stop flag is monotonic: once set it is never cleared, and once
\* it is set the outbound relay starts no receive on the model connection
\* and forwards no further event to the client.
C37_StopFlagMonotonic ==
    [][ stopFlag
        => /\ stopFlag'
           /\ recvActive' <= recvActive
           /\ wsSent' = wsSent ]_vars

\* the flag was set while the relay waited for an event it had asked for
C37_Witness ==
    /\ stopFlag
    /\ fwdPc = "cancelled"
    /\ relayExit.at = "recv_wait"
    /\ received # <<>>
    /\ Len(wsSent) = Len(received) + 1

\* C39: over the lifetime of a session the model connection is closed at
\* most once, the release at the end of handle_connection and the close of
\* cleanup counted together.
C39_ClosedAtMostOnce == closes <= 1

====
